---- MODULE Spec2Model ----
\* Verification model of the asset decoders of footballPro-authentic:
\*   tools/scr_decoder.py  - DynamixLZW, decompress_rle, decompress_section,
\*                           parse_scr_file, combine_nibbles, process_scr_file
\*   tools/anim_decoder.py - decompress_lz77
\* Byte buffers are sequences of integers 0..255.  Python indexes from 0 and
\* TLA+ sequences from 1: At(data, i) is data[i] of the source.
EXTENDS Integers, Sequences, FiniteSets, TLC

VARIABLES
    sec_pc,        \* decompress_section: "idle", "lzw", "rle", "done"
    sec_data,      \* decompress_section: its argument (a section payload)
    sec_result,    \* decompress_section: its return value
    lzw,           \* the DynamixLZW instance and the locals of decompress
    lzw_data,      \* DynamixLZW.decompress: argument data
    lzw_expected,  \* DynamixLZW.decompress: argument expected_size
    lzw_result,    \* DynamixLZW.decompress: return value
    rle,           \* decompress_rle: locals (pos, output) and position
    rle_data,      \* decompress_rle: argument data
    rle_expected,  \* decompress_rle: argument expected_size
    rle_result,    \* decompress_rle: return value
    scr_data,      \* parse_scr_file: the bytes of the file
    scr,           \* parse_scr_file: pos, result and position in the code
    proc,          \* process_scr_file: locals and position in the code
    lz_data,       \* decompress_lz77: argument data
    lz_offset,     \* decompress_lz77: argument offset
    lz_table,      \* decompress_lz77: argument color_table
    lz,            \* decompress_lz77: locals and position in the code
    nib,           \* combine_nibbles: arguments, position and return value
    gc             \* _get_code called on an instance: the cursor, the
                   \* arguments and the return value of the last call

codecVars == << sec_pc, sec_data, sec_result, lzw, lzw_data, lzw_expected,
                lzw_result, rle, rle_data, rle_expected, rle_result >>

scrVars == << scr_data, scr, proc >>

lzVars == << lz_data, lz_offset, lz_table, lz >>

nibVars == << nib >>

gcVars == << gc >>

vars == << codecVars, scrVars, lzVars, nibVars, gcVars >>

-----------------------------------------------------------------------------
\* Bounds of the model (inputs are drawn from finite sets built with them).

\* longest LZW code sequence packed into an input stream
MaxCodes == 3
\* longest byte stream given to the RLE decoder and to the raw passthrough
MaxRleLen == 4
\* largest small declared uncompressed size
MaxExpected == 4
\* one declared size that needs two bytes of the little-endian size field
BigSize == 258

-----------------------------------------------------------------------------
\* Python primitives.

Min(a, b) == IF a < b THEN a ELSE b

Pow2(n) == 2 ^ n

\* data[i]
At(data, i) == data[i + 1]

\* data[a:b] for 0 <= a, 0 <= b: the slice is clamped to the buffer.
Slice(data, a, b) ==
    LET hi == Min(b, Len(data))
    IN  IF a >= hi THEN << >> ELSE [k \in 1..(hi - a) |-> data[a + k]]

\* [val] * count
Repeat(val, count) == [k \in 1..count |-> val]

\* a & b on non-negative integers
RECURSIVE BitAnd(_, _)
BitAnd(a, b) ==
    IF a = 0 \/ b = 0 THEN 0
    ELSE (a % 2) * (b % 2) + 2 * BitAnd(a \div 2, b \div 2)

\* struct.unpack_from('<I', data, off)[0]; the caller checks the bytes exist.
U32LE(data, off) ==
    At(data, off) + 256 * At(data, off + 1) + 65536 * At(data, off + 2)
        + 16777216 * At(data, off + 3)

\* A value that may be None: decompress_section and the parser's fields.
None == [none |-> TRUE, bytes |-> << >>]
Some(b) == [none |-> FALSE, bytes |-> b]

-----------------------------------------------------------------------------
\* DynamixLZW

BIT_MASKS == << 0, 1, 3, 7, 15, 31, 63, 127, 255, 511, 1023, 2047, 4095,
                8191, 16383, 32767 >>

CLEAR_CODE == 256

\* prev_string = None.  Every dictionary string has at least one byte, so the
\* empty sequence is free to stand for None.
NoPrev == << >>

\* The instance after DynamixLZW.__init__, with the locals of decompress unset.
LZWNew ==
    [ table |-> << >>,        \* entries 257.. of _table; 0..255 are literals
      code_size |-> 9, table_size |-> 257, table_max |-> 512,
      table_full |-> FALSE, cache_bits |-> 0,
      bits_data |-> 0, bits_size |-> 0,
      pos |-> 0, output |-> << >>, prev_string |-> NoPrev,
      code |-> -1,            \* the local code; -1 is None or not yet set
      aligned_at |-> 0,       \* history, not in the source: the bit offset
                              \* of data at which the last reset() was made
      pc |-> "idle", stop |-> "none" ]

\* reset(): the table holds the 256 literals again, code size 9.
LZWReset(st) ==
    [st EXCEPT !.table = << >>, !.code_size = 9, !.table_size = 257,
               !.table_max = 512, !.table_full = FALSE, !.cache_bits = 0]

\* code in self._table: the literals 0..255 and the entries added since reset
InTable(st, code) ==
    \/ code >= 0 /\ code < 256
    \/ code >= 257 /\ code - 256 <= Len(st.table)

\* self._table[code]
TableGet(st, code) ==
    IF code < 256 THEN << code >> ELSE st.table[code - 256]

\* Width kept of the value _get_code returns (see GetCodeLoop).
ResultBits == 22

\* Mutant of GetCodeLoop: the bits taken later are placed below those taken
\* before.
RECURSIVE GetCodeLoop_MsbFirst(_, _, _, _, _, _, _)
GetCodeLoop_MsbFirst(result, bits_needed, total_bits, data, bits_data, bits_size, pos) ==
    IF bits_needed <= 0
    THEN [ok |-> TRUE, code |-> result, bits_data |-> bits_data,
          bits_size |-> bits_size, pos |-> pos]
    ELSE IF bits_size = 0 /\ pos >= Len(data)
    THEN [ok |-> FALSE, code |-> 0, bits_data |-> bits_data,
          bits_size |-> bits_size, pos |-> pos]
    ELSE LET bd == IF bits_size = 0 THEN At(data, pos) ELSE bits_data
             p  == IF bits_size = 0 THEN pos + 1 ELSE pos
             bs == IF bits_size = 0 THEN 8 ELSE bits_size
             use_bits == Min(bits_needed, bs)
             extracted == BitAnd(bd, BIT_MASKS[use_bits + 1])
             shift == total_bits - bits_needed
             placed == IF shift >= ResultBits THEN result
                       ELSE result * Pow2(use_bits) + extracted
         IN  GetCodeLoop_MsbFirst(placed, bits_needed - use_bits, total_bits,
                                  data, bd \div Pow2(use_bits), bs - use_bits,
                                  p)

\* The while loop of _get_code.  ok = FALSE is the return of (None, pos).
RECURSIVE GetCodeLoop(_, _, _, _, _, _, _)
GetCodeLoop(result, bits_needed, total_bits, data, bits_data, bits_size, pos) ==
    IF bits_needed <= 0
    THEN [ok |-> TRUE, code |-> result, bits_data |-> bits_data,
          bits_size |-> bits_size, pos |-> pos]
    ELSE IF bits_size = 0 /\ pos >= Len(data)
    THEN [ok |-> FALSE, code |-> 0, bits_data |-> bits_data,
          bits_size |-> bits_size, pos |-> pos]
    ELSE LET bd == IF bits_size = 0 THEN At(data, pos) ELSE bits_data
             p  == IF bits_size = 0 THEN pos + 1 ELSE pos
             bs == IF bits_size = 0 THEN 8 ELSE bits_size
             use_bits == Min(bits_needed, bs)
             extracted == BitAnd(bd, BIT_MASKS[use_bits + 1])
             shift == total_bits - bits_needed
             \* result |= extracted << shift: the bits placed so far lie
             \* below the shift, so the OR is a sum.  Python integers are
             \* unbounded and the checker's are 32-bit: bits from position
             \* ResultBits on are left out of result.  Codes have 9..12
             \* bits; only the alignment skip reads more (up to 95), and its
             \* caller discards the value.
             placed == IF shift >= ResultBits THEN result
                       ELSE result + extracted * Pow2(shift)
         IN  GetCodeLoop(placed, bits_needed - use_bits, total_bits, data,
                         bd \div Pow2(use_bits), bs - use_bits, p)

\* _get_code(num_bits, data, pos) on the instance st; pos is the shared list.
GetCode(num_bits, data, st) ==
    GetCodeLoop(0, num_bits, num_bits, data, st.bits_data, st.bits_size, st.pos)

\* The bit cursor of st moved to where a _get_code call left it.
WithCursor(st, g) ==
    [st EXCEPT !.bits_data = g.bits_data, !.bits_size = g.bits_size,
               !.pos = g.pos]

\* Mutant of CacheAfterCode: the counter wraps only once it is past the block.
CacheAfterCode_WrapLate(st) ==
    LET c == st.cache_bits + st.code_size
    IN  IF c > st.code_size * 8 THEN c - st.code_size * 8 ELSE c

\* The block-alignment tracker after one code of the current size.
CacheAfterCode(st) ==
    LET c == st.cache_bits + st.code_size
    IN  IF c >= st.code_size * 8 THEN c - st.code_size * 8 ELSE c

\* bits of the input taken so far: those read less those still buffered
BitsTaken(st) == 8 * st.pos - st.bits_size

\* The alignment skip of the clear branch.
LZWSkip(st, data) ==
    IF st.cache_bits > 0
    THEN WithCursor(st, GetCode(st.code_size * 8 - st.cache_bits, data, st))
    ELSE st

\* Mutant of LZWClear: the reset also rewinds the read position.
LZWClear_Rewind(st, data) ==
    [LZWReset(st) EXCEPT !.prev_string = NoPrev, !.pos = 0, !.bits_size = 0,
                         !.bits_data = 0, !.aligned_at = 0]

\* Mutant of LZWClear: the reset is done without the skip to the block end.
LZWClear_NoSkip(st, data) ==
    [LZWReset(st) EXCEPT !.prev_string = NoPrev, !.aligned_at = BitsTaken(st)]

\* Mutant of LZWClear: prev_string is kept over the reset.
LZWClear_KeepPrev(st, data) ==
    [LZWReset(LZWSkip(st, data)) EXCEPT
        !.aligned_at = BitsTaken(LZWSkip(st, data))]

\* Mutant of LZWClear: the skip is made even at the end of a block, so a
\* whole block is passed over there.
LZWClear_SkipAlways(st, data) ==
    LET skipped == WithCursor(st, GetCode(st.code_size * 8 - st.cache_bits,
                                          data, st))
    IN  [LZWReset(skipped) EXCEPT !.prev_string = NoPrev,
                                  !.aligned_at = BitsTaken(skipped)]

\* The clear-code branch: skip to the block boundary, reset, forget prev.
LZWClear(st, data) ==
    LET skipped == LZWSkip(st, data)
    IN  [LZWReset(skipped) EXCEPT !.prev_string = NoPrev,
                                  !.aligned_at = BitsTaken(skipped)]

\* Mutant of LZWAddEntry: the table is never marked full.
LZWAddEntry_NoFreeze(st, current_string) ==
    IF st.prev_string # NoPrev /\ ~st.table_full
    THEN LET added == [st EXCEPT
                          !.table = Append(@, st.prev_string
                                               \o << current_string[1] >>),
                          !.table_size = @ + 1]
         IN  IF added.table_size = added.table_max /\ added.code_size < 12
             THEN [added EXCEPT !.code_size = @ + 1,
                                !.table_max = Pow2(added.code_size + 1)]
             ELSE added
    ELSE st

\* Mutant of LZWAddEntry: the code size grows one entry late.
LZWAddEntry_GrowLate(st, current_string) ==
    IF st.prev_string # NoPrev /\ ~st.table_full
    THEN LET added == [st EXCEPT
                          !.table = Append(@, st.prev_string
                                               \o << current_string[1] >>),
                          !.table_size = @ + 1]
         IN  IF added.table_size = added.table_max + 1 /\ added.code_size < 12
             THEN [added EXCEPT !.code_size = @ + 1,
                                !.table_max = Pow2(added.code_size + 1)]
             ELSE IF added.table_size > added.table_max + 1
             THEN [added EXCEPT !.table_full = TRUE]
             ELSE added
    ELSE st

\* "Add new table entry" and the code-size growth that follows it.
LZWAddEntry(st, current_string) ==
    IF st.prev_string # NoPrev /\ ~st.table_full
    THEN LET added == [st EXCEPT
                          !.table = Append(@, st.prev_string
                                               \o << current_string[1] >>),
                          !.table_size = @ + 1]
         IN  IF added.table_size = added.table_max /\ added.code_size < 12
             THEN [added EXCEPT !.code_size = @ + 1,
                                !.table_max = Pow2(added.code_size + 1)]
             ELSE IF added.table_size >= added.table_max
             THEN [added EXCEPT !.table_full = TRUE]
             ELSE added
    ELSE st

\* Emit current_string, add the entry, remember the string.
LZWEmit(st, current_string) ==
    [LZWAddEntry([st EXCEPT !.output = @ \o current_string], current_string)
        EXCEPT !.prev_string = current_string]

\* Mutant of LZWDispatch: the code of the entry being built repeats the last
\* byte of the previous string.
LZWDispatch_RepeatLast(st, code, data) ==
    IF code = CLEAR_CODE THEN LZWClear(st, data)
    ELSE IF code < st.table_size /\ InTable(st, code)
    THEN LZWEmit(st, TableGet(st, code))
    ELSE IF code = st.table_size /\ st.prev_string # NoPrev
    THEN LZWEmit(st, st.prev_string
                        \o << st.prev_string[Len(st.prev_string)] >>)
    ELSE [st EXCEPT !.pc = "exit", !.stop = "invalid"]

\* Mutant of LZWDispatch: an invalid code is skipped and decoding goes on.
LZWDispatch_SkipInvalid(st, code, data) ==
    IF code = CLEAR_CODE THEN LZWClear(st, data)
    ELSE IF code < st.table_size /\ InTable(st, code)
    THEN LZWEmit(st, TableGet(st, code))
    ELSE IF code = st.table_size /\ st.prev_string # NoPrev
    THEN LZWEmit(st, st.prev_string \o << st.prev_string[1] >>)
    ELSE st

\* The dispatch of one code that was read (st already has the cursor moved
\* and the block tracker updated).
LZWDispatch(st, code, data) ==
    IF code = CLEAR_CODE THEN LZWClear(st, data)
    ELSE IF code < st.table_size /\ InTable(st, code)
    THEN LZWEmit(st, TableGet(st, code))
    ELSE IF code = st.table_size /\ st.prev_string # NoPrev
    THEN LZWEmit(st, st.prev_string \o << st.prev_string[1] >>)
    ELSE [st EXCEPT !.pc = "exit", !.stop = "invalid"]

\* One pass through the body of the while loop of decompress.
LZWBody(st, data) ==
    LET g == GetCode(st.code_size, data, st)
    IN  IF ~g.ok
        THEN [WithCursor(st, g) EXCEPT !.code = -1, !.pc = "exit", !.stop = "eos"]
        ELSE LZWDispatch([WithCursor(st, g) EXCEPT
                             !.code = g.code,
                             !.cache_bits = CacheAfterCode(st)],
                         g.code, data)

\* Mutant of LZWGuard: the loop runs once more at the expected length.
LZWGuard_OffByOne(st, expected) == Len(st.output) <= expected

\* while len(output) < expected_size
LZWGuard(st, expected) == Len(st.output) < expected

\* Mutant of LZWEnter: the bit buffer is not emptied on entry.
LZWEnter_KeepBits(st) ==
    [LZWReset(st) EXCEPT !.pos = 0, !.output = << >>, !.prev_string = NoPrev,
                         !.code = -1, !.pc = "loop", !.stop = "none",
                         !.aligned_at = 0]

\* The entry of decompress: reset(), empty bit buffer, fresh locals.
LZWEnter(st) ==
    [LZWReset(st) EXCEPT !.bits_data = 0, !.bits_size = 0, !.pos = 0,
                         !.output = << >>, !.prev_string = NoPrev,
                         !.code = -1, !.pc = "loop", !.stop = "none",
                         !.aligned_at = 0]

\* One evaluation of the loop: the guard, then the body or the exit.
LZWLoopOnce(st, data, expected) ==
    IF LZWGuard(st, expected) THEN LZWBody(st, data)
    ELSE [st EXCEPT !.pc = "exit", !.stop = "size"]

\* Mutant of LZWReturnValue: the last expected_size bytes are returned.
LZWReturnValue_Tail(output, expected) ==
    IF Len(output) <= expected THEN output
    ELSE Slice(output, Len(output) - expected, Len(output))

\* Mutant of LZWReturnValue: the output is returned without the slice.
LZWReturnValue_NoSlice(output, expected) == output

\* return bytes(output[:expected_size])
LZWReturnValue(output, expected) == Slice(output, 0, expected)

RECURSIVE LZWRun(_, _, _)
LZWRun(st, data, expected) ==
    IF st.pc = "loop" THEN LZWRun(LZWLoopOnce(st, data, expected), data, expected)
    ELSE st

\* DynamixLZW().decompress(data, expected_size) as a function of its input
LZWDecompress(data, expected) ==
    LZWReturnValue(LZWRun(LZWEnter(LZWNew), data, expected).output, expected)

-----------------------------------------------------------------------------
\* decompress_rle

\* The locals of decompress_rle before the loop.
RLEEnter == [pos |-> 0, output |-> << >>, pc |-> "loop", stop |-> "none"]

\* while pos < len(data) and len(output) < expected_size
RLEGuard(st, data, expected) ==
    st.pos < Len(data) /\ Len(st.output) < expected

\* Mutant of RLERepeat: the run is one byte longer than its count.
RLERepeat_CountPlusOne(st, data, cmd, pos) ==
    LET count == BitAnd(cmd, 127) + 1
    IN  IF pos >= Len(data)
        THEN [st EXCEPT !.pos = pos, !.pc = "exit", !.stop = "break"]
        ELSE [st EXCEPT !.pos = pos + 1,
                        !.output = @ \o Repeat(At(data, pos), count)]

\* The repeat branch: cmd has its high bit set, pos is past the control byte.
RLERepeat(st, data, cmd, pos) ==
    LET count == BitAnd(cmd, 127)
    IN  IF pos >= Len(data)
        THEN [st EXCEPT !.pos = pos, !.pc = "exit", !.stop = "break"]
        ELSE [st EXCEPT !.pos = pos + 1,
                        !.output = @ \o Repeat(At(data, pos), count)]

\* The literal branch: cmd is the count, pos is past the control byte.
RLELiteral(st, data, cmd, pos) ==
    IF cmd = 0
    THEN [st EXCEPT !.pos = pos]
    ELSE [st EXCEPT !.pos = pos + cmd,
                    !.output = @ \o Slice(data, pos, pos + cmd)]

\* One pass through the body of the while loop.
RLEBody(st, data) ==
    LET cmd == At(data, st.pos)
    IN  IF BitAnd(cmd, 128) # 0
        THEN RLERepeat(st, data, cmd, st.pos + 1)
        ELSE RLELiteral(st, data, cmd, st.pos + 1)

\* One evaluation of the loop: the guard, then the body or the exit.
RLELoopOnce(st, data, expected) ==
    IF RLEGuard(st, data, expected) THEN RLEBody(st, data)
    ELSE [st EXCEPT !.pc = "exit", !.stop = "guard"]

\* return bytes(output[:expected_size])
RLEReturnValue(output, expected) == Slice(output, 0, expected)

RECURSIVE RLERun(_, _, _)
RLERun(st, data, expected) ==
    IF st.pc = "loop" THEN RLERun(RLELoopOnce(st, data, expected), data, expected)
    ELSE st

\* decompress_rle(data, expected_size) as a function of its input
RLEDecompress(data, expected) ==
    RLEReturnValue(RLERun(RLEEnter, data, expected).output, expected)

-----------------------------------------------------------------------------
\* decompress_section

\* if len(data) < 5: return None
SectionTooShort(data) == Len(data) < 5

\* comp_type = data[0]
SectionCompType(data) == At(data, 0)

\* uncomp_size = struct.unpack_from('<I', data, 1)[0]
SectionUncompSize(data) == U32LE(data, 1)

\* payload = data[5:]
SectionPayload(data) == Slice(data, 5, Len(data))

\* comp_type == 0x00: return bytes(payload[:uncomp_size])
RawPassthrough(payload, uncomp_size) == Slice(payload, 0, uncomp_size)

\* Mutant of SectionBranch: an unrecognized type falls through to raw.
SectionBranch_DefaultRaw(data) ==
    IF SectionTooShort(data) THEN "short"
    ELSE IF SectionCompType(data) = 1 THEN "rle"
    ELSE IF SectionCompType(data) = 2 THEN "lzw"
    ELSE "raw"

\* Which branch of decompress_section a payload takes.
SectionBranch(data) ==
    IF SectionTooShort(data) THEN "short"
    ELSE IF SectionCompType(data) = 0 THEN "raw"
    ELSE IF SectionCompType(data) = 1 THEN "rle"
    ELSE IF SectionCompType(data) = 2 THEN "lzw"
    ELSE "unknown"

\* decompress_section(data) as a function of its input
DecompressSection(data) ==
    LET b == SectionBranch(data)
    IN  IF b = "short" \/ b = "unknown" THEN None
        ELSE IF b = "raw"
        THEN Some(RawPassthrough(SectionPayload(data), SectionUncompSize(data)))
        ELSE IF b = "rle"
        THEN Some(RLEDecompress(SectionPayload(data), SectionUncompSize(data)))
        ELSE Some(LZWDecompress(SectionPayload(data), SectionUncompSize(data)))

-----------------------------------------------------------------------------
\* Inputs of the codec specification.

\* n as 4 bytes little-endian (n < 2^24 here)
LE32(n) == << n % 256, (n \div 256) % 256, (n \div 65536) % 256, 0 >>

SeqsUpTo(S, n) == UNION { [1..k -> S] : k \in 0..n }

\* The bits of a code, least significant first.
CodeBits(code, width) == [k \in 1..width |-> (code \div Pow2(k - 1)) % 2]

RECURSIVE ConcatBits(_, _)
ConcatBits(codes, width) ==
    IF codes = << >> THEN << >>
    ELSE CodeBits(Head(codes), width) \o ConcatBits(Tail(codes), width)

\* Bits packed into bytes LSB-first, the last byte padded with zero bits.
PackBits(bits) ==
    LET n == (Len(bits) + 7) \div 8
        bit(i) == IF i <= Len(bits) THEN bits[i] ELSE 0
    IN  [j \in 1..n |-> bit(8*j - 7) + 2 * bit(8*j - 6) + 4 * bit(8*j - 5)
                         + 8 * bit(8*j - 4) + 16 * bit(8*j - 3)
                         + 32 * bit(8*j - 2) + 64 * bit(8*j - 1)
                         + 128 * bit(8*j)]

\* A hand-built stream: the codes packed at 9 bits each.
PackCodes(codes) == PackBits(ConcatBits(codes, 9))

\* Literals 'A' and 'B', the clear code, the first two dictionary codes and a
\* code no short stream defines.
CodeAlphabet == {65, 66, 256, 257, 258, 511}

\* A full 72-bit block that starts with a clear code.
ClearBlock == << 0, 1, 0, 0, 0, 0, 0, 0, 0 >>

LZWStreams ==
    { prefix \o PackCodes(cs) :
          prefix \in {<< >>, ClearBlock}, cs \in SeqsUpTo(CodeAlphabet, MaxCodes) }

\* Control bytes: no-op, literal 2, literal 65 (longer than any stream),
\* run of 0, run of 3; each also serves as a data byte.
ByteAlphabet == {0, 2, 65, 128, 131}

ByteStreams == SeqsUpTo(ByteAlphabet, MaxRleLen)

\* longest stream given to the raw passthrough and to unknown codecs
MaxRawLen == 2

ShortStreams == SeqsUpTo(ByteAlphabet, MaxRawLen)

ExpectedSizes == (0..MaxExpected) \cup {BigSize}

\* Compression-type bytes that select no codec.
UnknownTypes == {3, 255}

SectionInputs ==
    { << 1 >> \o LE32(n) \o s : n \in ExpectedSizes, s \in ByteStreams }
    \cup { << 2 >> \o LE32(n) \o s : n \in ExpectedSizes, s \in LZWStreams }
    \cup { << t >> \o LE32(n) \o s :
              t \in {0} \cup UnknownTypes, n \in ExpectedSizes, s \in ShortStreams }
    \cup { Slice(<< t >> \o LE32(n), 0, k) :
              t \in {0, 1, 2, 3}, n \in {0, 2}, k \in 0..4 }

-----------------------------------------------------------------------------
\* parse_scr_file

WIDTH == 320
HEIGHT == 200

TAG_SCR == << 83, 67, 82, 58 >>
TAG_DIM == << 68, 73, 77, 58 >>
TAG_BIN == << 66, 73, 78, 58 >>
TAG_VGA == << 86, 71, 65, 58 >>
TAG_VQT == << 86, 81, 84, 58 >>

\* struct.unpack_from('<I', data, off)[0] & 0x7FFFFFFF.  The raw value needs
\* 32 bits and the checker's integers have 31: the mask is applied to the top
\* byte before the bytes are summed.
U32Clean(data, off) ==
    At(data, off) + 256 * At(data, off + 1) + 65536 * At(data, off + 2)
        + 16777216 * BitAnd(At(data, off + 3), 127)

\* Mutant of U32TopBit: the flag is taken from the first byte of the field.
U32TopBit_FirstByte(data, off) == BitAnd(At(data, off), 128) # 0

\* bool(struct.unpack_from('<I', data, off)[0] & 0x80000000)
U32TopBit(data, off) == BitAnd(At(data, off + 3), 128) # 0

\* struct.unpack_from('<H', data, off)[0]
U16LE(data, off) == At(data, off) + 256 * At(data, off + 1)

\* struct.unpack_from(fmt, data, off) raises struct.error unless the buffer
\* holds size bytes from off.
UnpackFits(data, off, size) == off + size <= Len(data)

\* tag.decode('ascii') succeeds
IsAscii(tag) == \A k \in 1..Len(tag) : tag[k] < 128

\* The dict parse_scr_file returns.
ScrResultInit ==
    [ width |-> WIDTH, height |-> HEIGHT,
      bin_data |-> None, vga_data |-> None, vqt_data |-> None ]

\* parse_scr_file before its first statement.
ScrNew ==
    [ pc |-> "start", pos |-> 0, scr_size |-> 0, is_container |-> FALSE,
      result |-> ScrResultInit, returned |-> "nothing", visited |-> << >> ]

\* The magic check and the SCR: header.
ScrHeader(st, data) ==
    IF Slice(data, 0, 4) # TAG_SCR
    THEN [st EXCEPT !.pc = "done", !.returned = "None"]
    ELSE IF ~UnpackFits(data, 4, 4)
    THEN [st EXCEPT !.pc = "raised"]
    ELSE [st EXCEPT !.pc = "loop", !.pos = 8,
                    !.scr_size = U32Clean(data, 4),
                    !.is_container = U32TopBit(data, 4)]

\* The DIM: branch; section_data is the (clamped) slice of the section.
ScrDim(st, section_data, size_clean) ==
    IF size_clean >= 4
    THEN IF UnpackFits(section_data, 0, 2) /\ UnpackFits(section_data, 2, 2)
         THEN [st EXCEPT !.result.width = U16LE(section_data, 0),
                         !.result.height = U16LE(section_data, 2)]
         ELSE [st EXCEPT !.pc = "raised"]
    ELSE st

\* Mutant of ScrRecord: a section with another tag is kept as the BIN: plane.
ScrRecord_KeepUnknown(st, tag, section_data, size_clean) ==
    IF tag = TAG_DIM THEN ScrDim(st, section_data, size_clean)
    ELSE IF tag = TAG_VGA THEN [st EXCEPT !.result.vga_data = Some(section_data)]
    ELSE IF tag = TAG_VQT THEN [st EXCEPT !.result.vqt_data = Some(section_data)]
    ELSE [st EXCEPT !.result.bin_data = Some(section_data)]

\* The if/elif chain on the tag.
ScrRecord(st, tag, section_data, size_clean) ==
    IF tag = TAG_DIM THEN ScrDim(st, section_data, size_clean)
    ELSE IF tag = TAG_BIN THEN [st EXCEPT !.result.bin_data = Some(section_data)]
    ELSE IF tag = TAG_VGA THEN [st EXCEPT !.result.vga_data = Some(section_data)]
    ELSE IF tag = TAG_VQT THEN [st EXCEPT !.result.vqt_data = Some(section_data)]
    ELSE st

\* Mutant of ScrAdvance: the 8 header bytes are left out of the advance.
ScrAdvance_NoHeader(pos, size_clean) == pos + size_clean

\* pos += 8 + size_clean
ScrAdvance(pos, size_clean) == pos + 8 + size_clean

\* section_data = data[pos+8:pos+8+size_clean]
ScrSectionData(data, pos, size_clean) == Slice(data, pos + 8, pos + 8 + size_clean)

\* One pass through the body of the child-section loop.
ScrBody(st, data) ==
    IF st.pos + 8 > Len(data)
    THEN [st EXCEPT !.pc = "done", !.returned = "result"]
    ELSE LET tag == Slice(data, st.pos, st.pos + 4)
         IN  IF ~IsAscii(tag)
             THEN [st EXCEPT !.pc = "done", !.returned = "result"]
             ELSE LET size_clean == U32Clean(data, st.pos + 4)
                      section_data == ScrSectionData(data, st.pos, size_clean)
                      \* print(f"  Section '{tag_str}' at offset {pos}, ...")
                      seen == [st EXCEPT
                                 !.visited = Append(@, << st.pos, size_clean >>)]
                      rec == ScrRecord(seen, tag, section_data, size_clean)
                  IN  IF rec.pc = "raised" THEN rec
                      ELSE [rec EXCEPT !.pos = ScrAdvance(st.pos, size_clean)]

\* One evaluation of the loop: while pos < len(data), then the body.
ScrLoopOnce(st, data) ==
    IF st.pos < Len(data) THEN ScrBody(st, data)
    ELSE [st EXCEPT !.pc = "done", !.returned = "result"]

RECURSIVE ScrRun(_, _)
ScrRun(st, data) ==
    IF st.pc = "start" THEN ScrRun(ScrHeader(st, data), data)
    ELSE IF st.pc = "loop" THEN ScrRun(ScrLoopOnce(st, data), data)
    ELSE st

-----------------------------------------------------------------------------
\* process_scr_file, from the call of parse_scr_file to the choice of what is
\* handed to save_image.  The pixel buffer itself is a function of the fields
\* kept here (mode, the planes, width, height).

ProcNew ==
    [ pc |-> "wait", ret |-> "nothing", why |-> "none",
      bin_pixels |-> None, vga_pixels |-> None, vga_called |-> FALSE,
      mode |-> "none" ]

\* info = parse_scr_file(...) returned, up to bin_pixels = decompress_section.
ProcBin(pr, st) ==
    IF st.returned = "None"
    THEN [pr EXCEPT !.pc = "done", !.ret = "False", !.why = "not_scr"]
    ELSE IF ~st.result.vqt_data.none /\ st.result.bin_data.none
    THEN [pr EXCEPT !.pc = "done", !.ret = "False", !.why = "vqt"]
    ELSE IF st.result.bin_data.none
    THEN [pr EXCEPT !.pc = "done", !.ret = "False", !.why = "no_bin"]
    ELSE LET bin_pixels == DecompressSection(st.result.bin_data.bytes)
         IN  IF bin_pixels.none
             THEN [pr EXCEPT !.pc = "done", !.ret = "False", !.why = "bin_failed"]
             ELSE [pr EXCEPT !.pc = "vga", !.bin_pixels = bin_pixels]

\* Mutant of ProcVga: a failed VGA: section fails the file like BIN: does.
ProcVga_FailFile(pr, st) ==
    IF ~st.result.vga_data.none
    THEN LET vga_pixels == DecompressSection(st.result.vga_data.bytes)
         IN  IF vga_pixels.none
             THEN [pr EXCEPT !.pc = "done", !.ret = "False", !.vga_called = TRUE,
                             !.why = "vga_failed"]
             ELSE [pr EXCEPT !.pc = "render", !.vga_called = TRUE,
                             !.vga_pixels = vga_pixels]
    ELSE [pr EXCEPT !.pc = "render"]

\* The "Decompress VGA: section" block.
ProcVga(pr, st) ==
    IF ~st.result.vga_data.none
    THEN [pr EXCEPT !.pc = "render", !.vga_called = TRUE,
                    !.vga_pixels = DecompressSection(st.result.vga_data.bytes)]
    ELSE [pr EXCEPT !.pc = "render"]

\* The choice between the two-plane and the single-plane modes.
ProcRender(pr, st) ==
    LET n == Len(pr.bin_pixels.bytes)
        expected_8bit == st.result.width * st.result.height
        expected_4bit == (st.result.width * st.result.height) \div 2
        mode == IF ~pr.vga_pixels.none THEN "combine"
                ELSE IF n = expected_8bit THEN "direct8"
                ELSE IF n = expected_4bit THEN "unpack4"
                ELSE "raw"
    IN  [pr EXCEPT !.pc = "done", !.ret = "True", !.mode = mode]

-----------------------------------------------------------------------------
\* Inputs of the screen-file specification.

\* most child sections in a generated file
MaxSections == 2
\* most bytes cut off the end of a generated file
MaxCut == 9

\* A section: tag, the 4 bytes of the size field, the body.
Section(tag, size_field, body) == tag \o size_field \o body

\* Payloads of BIN: and VGA: sections: raw, RLE and LZW encodings of two
\* bytes, an unknown compression type, and a sub-header cut short.
PlanePayloads ==
    { << 0 >> \o LE32(2) \o << 33, 67 >>,
      << 1 >> \o LE32(2) \o << 2, 33, 67 >>,
      << 2 >> \o LE32(2) \o PackCodes(<< 33, 67 >>),
      << 3 >> \o LE32(2) \o << 33, 67 >>,
      << 1, 2 >> }

ChildSections ==
    { Section(TAG_DIM, LE32(4), << 2, 0, 2, 0 >>),
      Section(TAG_DIM, << 4, 0, 0, 128 >>, << 4, 0, 1, 0 >>),
      Section(TAG_DIM, LE32(2), << 1, 0 >>),
      Section(TAG_DIM, LE32(4), << 2, 0, 1, 0 >>),
      Section(TAG_VQT, LE32(1), << 7 >>),
      Section(<< 88, 89, 90, 58 >>, LE32(2), << 9, 9 >>),
      Section(<< 200, 73, 78, 58 >>, LE32(0), << >>),
      Section(TAG_BIN, LE32(40), << 0 >> \o LE32(2) \o << 33, 67 >>) }
    \cup { Section(TAG_BIN, LE32(Len(p)), p) : p \in PlanePayloads }
    \cup { Section(TAG_VGA, LE32(Len(p)), p) : p \in PlanePayloads }

RECURSIVE Flatten(_)
Flatten(ss) == IF ss = << >> THEN << >> ELSE Head(ss) \o Flatten(Tail(ss))

\* SCR: header (container flag set or not), children, the end cut off; and
\* buffers that do not start with the magic.
ScrFiles ==
    { LET body == Flatten(cs)
          whole == TAG_SCR \o hdr \o body
      IN  Slice(whole, 0, Len(whole) - cut) :
          hdr \in { << 16, 0, 0, 128 >>, LE32(5) },
          cs \in SeqsUpTo(ChildSections, MaxSections),
          cut \in 0..MaxCut }
    \cup { << >>, << 73, 78, 83, 84, 65, 76, 76, 32, 49 >> }

-----------------------------------------------------------------------------
\* The screen-file specification: process_scr_file on one file.

ScrInit ==
    /\ scr_data \in ScrFiles
    /\ scr = ScrNew
    /\ proc = ProcNew

\* parse_scr_file: the magic check and the SCR: header.
ParseHeader ==
    /\ scr.pc = "start"
    /\ scr' = ScrHeader(scr, scr_data)
    /\ UNCHANGED << scr_data, proc >>

\* parse_scr_file: one evaluation of the child-section loop.
ParseStep ==
    /\ scr.pc = "loop"
    /\ scr' = ScrLoopOnce(scr, scr_data)
    /\ UNCHANGED << scr_data, proc >>

\* An exception of parse_scr_file leaves process_scr_file too.
ProcessRaise ==
    /\ scr.pc = "raised"
    /\ proc.pc = "wait"
    /\ proc' = [proc EXCEPT !.pc = "raised"]
    /\ UNCHANGED << scr_data, scr >>

ProcessBin ==
    /\ scr.pc = "done"
    /\ proc.pc = "wait"
    /\ proc' = ProcBin(proc, scr)
    /\ UNCHANGED << scr_data, scr >>

ProcessVga ==
    /\ proc.pc = "vga"
    /\ proc' = ProcVga(proc, scr)
    /\ UNCHANGED << scr_data, scr >>

ProcessRender ==
    /\ proc.pc = "render"
    /\ proc' = ProcRender(proc, scr)
    /\ UNCHANGED << scr_data, scr >>

ScrNext ==
    \/ ParseHeader
    \/ ParseStep
    \/ ProcessRaise
    \/ ProcessBin
    \/ ProcessVga
    \/ ProcessRender

-----------------------------------------------------------------------------
\* decompress_lz77 (anim_decoder.py)

IDENTITY_CT == [k \in 1..64 |-> k - 1]

\* COLOR_TABLES[0]: zeros, only indices 46 and 47 mapped
COLOR_TABLE_0 == [k \in 1..64 |-> IF k - 1 = 46 THEN 46
                                  ELSE IF k - 1 = 47 THEN 47 ELSE 0]

\* COLOR_TABLES[1]: team colors variant A
COLOR_TABLE_1 ==
    [k \in 1..64 |->
        LET i == k - 1
        IN  IF i \in 16..19 THEN i
            ELSE IF i \in 32..43 THEN i + 16
            ELSE IF i \in 44..45 THEN i
            ELSE IF i \in 48..59 THEN i - 16
            ELSE IF i \in 60..63 THEN i
            ELSE 0]

\* data[i] raises IndexError (i is never negative here)
IndexFails(data, i) == i >= Len(data)

\* decompress_lz77 before its first statement.
Lz77New ==
    [ pc |-> "header", si |-> 0, groups_m1 |-> 0, tail_bits |-> 0,
      output |-> << >>, g |-> 0, flag |-> 0, left |-> 0, in_tail |-> FALSE ]

\* si = offset; groups_m1 = data[si] | (data[si+1] << 8); tail_bits = data[si+2]
Lz77Header(st, data, offset) ==
    IF IndexFails(data, offset) \/ IndexFails(data, offset + 1)
       \/ IndexFails(data, offset + 2)
    THEN [st EXCEPT !.pc = "raised", !.si = offset]
    ELSE [st EXCEPT !.pc = "flag", !.si = offset + 3,
                    !.groups_m1 = At(data, offset) + 256 * At(data, offset + 1),
                    !.tail_bits = At(data, offset + 2)]

\* mapped = color_table[bv] if bv < 64 else bv
Lz77Map(color_table, bv) == IF bv < 64 THEN color_table[bv + 1] ELSE bv

\* The literal branch of process_bit.
Lz77Literal(st, data, color_table) ==
    IF IndexFails(data, st.si) THEN [st EXCEPT !.pc = "raised"]
    ELSE [st EXCEPT !.output = Append(@, Lz77Map(color_table, At(data, st.si))),
                    !.si = @ + 1]

\* Mutant of Lz77Copy: the copied byte is looked up in a color table.
RECURSIVE Lz77Copy_Remap(_, _, _, _)
Lz77Copy_Remap(output, copy_pos, j, copy_len) ==
    IF j >= copy_len THEN output
    ELSE LET src == copy_pos + j
             byte == IF 0 <= src /\ src < Len(output)
                     THEN Lz77Map(COLOR_TABLE_1, At(output, src)) ELSE 0
         IN  Lz77Copy_Remap(Append(output, byte), copy_pos, j + 1, copy_len)

\* Mutant of Lz77Copy: a source index outside the output appends nothing.
RECURSIVE Lz77Copy_SkipOutside(_, _, _, _)
Lz77Copy_SkipOutside(output, copy_pos, j, copy_len) ==
    IF j >= copy_len THEN output
    ELSE LET src == copy_pos + j
         IN  Lz77Copy_SkipOutside(IF 0 <= src /\ src < Len(output)
                                  THEN Append(output, At(output, src))
                                  ELSE output,
                                  copy_pos, j + 1, copy_len)

\* for j in range(copy_len): one byte at a time, from the growing output
RECURSIVE Lz77Copy(_, _, _, _)
Lz77Copy(output, copy_pos, j, copy_len) ==
    IF j >= copy_len THEN output
    ELSE LET src == copy_pos + j
             byte == IF 0 <= src /\ src < Len(output) THEN At(output, src) ELSE 0
         IN  Lz77Copy(Append(output, byte), copy_pos, j + 1, copy_len)

\* Mutant of Lz77BackRef: the copy starts one byte later.
Lz77BackRef_StartLate(st, data) ==
    IF IndexFails(data, st.si) \/ IndexFails(data, st.si + 1)
    THEN [st EXCEPT !.pc = "raised"]
    ELSE LET ref == At(data, st.si) + 256 * At(data, st.si + 1)
             copy_len == BitAnd(ref, 15) + 3
             distance == ref \div 16
             copy_pos == Len(st.output) - distance
         IN  [st EXCEPT !.output = Lz77Copy(@, copy_pos, 0, copy_len),
                        !.si = @ + 2]

\* The back-reference branch of process_bit.
Lz77BackRef(st, data) ==
    IF IndexFails(data, st.si) \/ IndexFails(data, st.si + 1)
    THEN [st EXCEPT !.pc = "raised"]
    ELSE LET ref == At(data, st.si) + 256 * At(data, st.si + 1)
             copy_len == BitAnd(ref, 15) + 3
             distance == ref \div 16
             copy_pos == Len(st.output) - distance - 1
         IN  [st EXCEPT !.output = Lz77Copy(@, copy_pos, 0, copy_len),
                        !.si = @ + 2]

\* process_bit(si, flag_bit)
Lz77ProcessBit(st, data, color_table, flag_bit) ==
    IF flag_bit = 0 THEN Lz77Literal(st, data, color_table)
    ELSE Lz77BackRef(st, data)

\* Mutant of Lz77NextFlag: the group loop runs groups_m1 times.
Lz77NextFlag_OneGroupLess(st, data) ==
    IF ~st.in_tail /\ st.g < st.groups_m1
    THEN IF IndexFails(data, st.si) THEN [st EXCEPT !.pc = "raised"]
         ELSE [st EXCEPT !.pc = "bit", !.flag = At(data, st.si), !.si = @ + 1,
                         !.left = 8, !.g = @ + 1]
    ELSE IF ~st.in_tail /\ st.tail_bits > 0
    THEN IF IndexFails(data, st.si) THEN [st EXCEPT !.pc = "raised"]
         ELSE [st EXCEPT !.pc = "bit", !.flag = At(data, st.si), !.si = @ + 1,
                         !.left = st.tail_bits, !.in_tail = TRUE]
    ELSE [st EXCEPT !.pc = "done"]

\* Where control goes once the decisions of the current flag byte are used up
\* (st.left = 0), and at the start: the next group, the tail, or the return.
Lz77NextFlag(st, data) ==
    IF ~st.in_tail /\ st.g < st.groups_m1 + 1
    THEN IF IndexFails(data, st.si) THEN [st EXCEPT !.pc = "raised"]
         ELSE [st EXCEPT !.pc = "bit", !.flag = At(data, st.si), !.si = @ + 1,
                         !.left = 8, !.g = @ + 1]
    ELSE IF ~st.in_tail /\ st.tail_bits > 0
    THEN IF IndexFails(data, st.si) THEN [st EXCEPT !.pc = "raised"]
         ELSE [st EXCEPT !.pc = "bit", !.flag = At(data, st.si), !.si = @ + 1,
                         !.left = st.tail_bits, !.in_tail = TRUE]
    ELSE [st EXCEPT !.pc = "done"]

\* si = process_bit(si, (flag >> 7) & 1); flag <<= 1
Lz77Decision(st, data, color_table) ==
    LET flag_bit == (st.flag \div 128) % 2
        after == Lz77ProcessBit(st, data, color_table, flag_bit)
    IN  IF after.pc = "raised" THEN after
        ELSE [after EXCEPT !.flag = @ * 2, !.left = @ - 1,
                           !.pc = IF st.left = 1 THEN "flag" ELSE "bit"]

\* One step of decompress_lz77.
Lz77Once(st, data, offset, color_table) ==
    IF st.pc = "header" THEN Lz77Header(st, data, offset)
    ELSE IF st.pc = "flag" THEN Lz77NextFlag(st, data)
    ELSE Lz77Decision(st, data, color_table)

RECURSIVE Lz77Run(_, _, _, _)
Lz77Run(st, data, offset, color_table) ==
    IF st.pc \in {"header", "flag", "bit"}
    THEN Lz77Run(Lz77Once(st, data, offset, color_table), data, offset, color_table)
    ELSE st

-----------------------------------------------------------------------------
\* Inputs of the sprite specification.

\* most bytes after the 3-byte LZ77 header
MaxBody == 21
\* largest tail_bits of a generated header
MaxTail == 2
\* largest groups_m1 of a generated header
MaxGroups == 1
\* longest byte pattern repeated to fill the body
MaxPattern == 2
\* a tail_bits larger than the 8 bits of a flag byte
LongTail == 9

\* As flag bytes: all literals, all references, mixed.  As data bytes: values
\* below 64 (remapped), 64 (passed through), and reference halves.
Lz77Alphabet == {0, 5, 46, 64, 255}

\* pattern repeated to n bytes
CyclicFill(pattern, n) == [k \in 1..n |-> pattern[((k - 1) % Len(pattern)) + 1]]

Lz77Streams ==
    { << gm, 0, tb >> \o CyclicFill(pat, n) :
          gm \in 0..MaxGroups, tb \in (0..MaxTail) \cup {LongTail},
          n \in 0..MaxBody,
          pat \in SeqsUpTo(Lz77Alphabet, MaxPattern) \ {<< >>} }
    \cup { << >>, << 0 >>, << 0, 0 >> }

\* A stream for a table that maps 48 to 32 and 32 to 48: one group whose
\* decisions are a literal 48, a copy of 3 bytes at distance 0, and six
\* literals 48, 32, ...; also cut short after every byte.
RemapBody == << 64, 48, 0, 0, 48, 32, 48, 32, 48, 32 >>

RemapStreams ==
    { << 0, 0, 0 >> \o SubSeq(RemapBody, 1, n) : n \in 0..Len(RemapBody) }

\* A stream of back-references into the output: one group whose decisions
\* are the literals 'A' and 'B', a copy of 5 bytes at distance 1, a copy of
\* 18 bytes at distance 0, and four literals; also cut short after every byte.
CopyBody == << 48, 65, 66, 18, 0, 15, 0, 67, 68, 69, 70 >>

\* A stream of back-references that start before the output: a copy of 3
\* bytes at distance 0 into the empty output, the literal 'A', a copy of 6
\* bytes at distance 5 with 4 bytes of output, and five literals.
EarlyBody == << 160, 0, 0, 65, 83, 0, 66, 66, 66, 66, 66 >>

CopyStreams ==
    { << 0, 0, 0 >> \o SubSeq(CopyBody, 1, n) : n \in 0..Len(CopyBody) }
    \cup { << 0, 0, 0 >> \o SubSeq(EarlyBody, 1, n) : n \in 0..Len(EarlyBody) }

\* Bytes in front of the stream when offset > 0.
Lz77Prefix == << 9, 9 >>

-----------------------------------------------------------------------------
\* The sprite specification: one decompress_lz77 call.

Lz77Init ==
    /\ \/ /\ \E s \in Lz77Streams, withPrefix \in BOOLEAN :
                /\ lz_data = IF withPrefix THEN Lz77Prefix \o s ELSE s
                /\ lz_offset = IF withPrefix THEN Len(Lz77Prefix) ELSE 0
          /\ lz_table \in {IDENTITY_CT, COLOR_TABLE_0}
       \/ /\ lz_data \in RemapStreams
          /\ lz_offset = 0
          /\ lz_table = COLOR_TABLE_1
       \/ /\ lz_data \in CopyStreams
          /\ lz_offset = 0
          /\ lz_table = IDENTITY_CT
    /\ lz = Lz77New

Lz77Idle ==
    lz_data = << >> /\ lz_offset = 0 /\ lz_table = IDENTITY_CT /\ lz = Lz77New

\* The three header bytes.
Lz77ReadHeader ==
    /\ lz.pc = "header"
    /\ lz' = Lz77Header(lz, lz_data, lz_offset)
    /\ UNCHANGED << lz_data, lz_offset, lz_table >>

\* The flag byte of the next group or of the tail, or the return.
Lz77ReadFlag ==
    /\ lz.pc = "flag"
    /\ lz' = Lz77NextFlag(lz, lz_data)
    /\ UNCHANGED << lz_data, lz_offset, lz_table >>

\* One decision of the current flag byte.
Lz77Decide ==
    /\ lz.pc = "bit"
    /\ lz' = Lz77Decision(lz, lz_data, lz_table)
    /\ UNCHANGED << lz_data, lz_offset, lz_table >>

Lz77Next ==
    \/ Lz77ReadHeader
    \/ Lz77ReadFlag
    \/ Lz77Decide

-----------------------------------------------------------------------------
\* combine_nibbles

\* bytearray(n): n zero bytes
Bytearray(n) == [k \in 1..n |-> 0]

\* What an array becomes when a store outside it raises IndexError.
IndexError == << -1 >>

\* a[i] = v
Store(a, i, v) ==
    IF a = IndexError \/ i >= Len(a) THEN IndexError
    ELSE [a EXCEPT ![i + 1] = v]

\* a | b on bytes
BitOr(a, b) == a + b - BitAnd(a, b)

\* The first loop, from pass i on: the low nibble of each BIN byte first.
RECURSIVE UnpackBin(_, _, _, _)
UnpackBin(bin_unpacked, bin_pixels, i, n) ==
    IF i >= n THEN bin_unpacked
    ELSE LET byte == At(bin_pixels, i)
         IN  UnpackBin(Store(Store(bin_unpacked, i * 2, BitAnd(byte, 15)),
                             i * 2 + 1, BitAnd(byte \div 16, 15)),
                       bin_pixels, i + 1, n)

\* Mutant of UnpackVga: the VGA plane is unpacked low nibble first as well.
RECURSIVE UnpackVga_LowFirst(_, _, _, _)
UnpackVga_LowFirst(vga_unpacked, vga_pixels, i, n) ==
    IF i >= n THEN vga_unpacked
    ELSE LET byte == At(vga_pixels, i)
         IN  UnpackVga_LowFirst(
                 Store(Store(vga_unpacked, i * 2, BitAnd(byte, 15)),
                       i * 2 + 1, BitAnd(byte \div 16, 15)),
                 vga_pixels, i + 1, n)

\* The second loop, from pass i on: the high nibble of each VGA byte first.
RECURSIVE UnpackVga(_, _, _, _)
UnpackVga(vga_unpacked, vga_pixels, i, n) ==
    IF i >= n THEN vga_unpacked
    ELSE LET byte == At(vga_pixels, i)
         IN  UnpackVga(Store(Store(vga_unpacked, i * 2,
                                   BitAnd(byte \div 16, 15)),
                             i * 2 + 1, BitAnd(byte, 15)),
                       vga_pixels, i + 1, n)

\* The third loop: pixels[i] = bin_unpacked[i] | (vga_unpacked[i] << 4)
CombinePlanes(bin_unpacked, vga_unpacked, num_pixels) ==
    IF bin_unpacked = IndexError \/ vga_unpacked = IndexError THEN IndexError
    ELSE [k \in 1..num_pixels |-> BitOr(bin_unpacked[k], vga_unpacked[k] * 16)]

\* Mutant of CombineNibbles: the loops run over the whole of each plane.
CombineNibbles_WholePlane(bin_pixels, vga_pixels, width, height) ==
    LET num_pixels == width * height
    IN  CombinePlanes(
            UnpackBin(Bytearray(num_pixels), bin_pixels, 0, Len(bin_pixels)),
            UnpackVga(Bytearray(num_pixels), vga_pixels, 0, Len(vga_pixels)),
            num_pixels)

\* combine_nibbles(bin_pixels, vga_pixels, width, height)
CombineNibbles(bin_pixels, vga_pixels, width, height) ==
    LET num_pixels == width * height
        packed_size == num_pixels \div 2
    IN  CombinePlanes(
            UnpackBin(Bytearray(num_pixels), bin_pixels, 0,
                      Min(packed_size, Len(bin_pixels))),
            UnpackVga(Bytearray(num_pixels), vga_pixels, 0,
                      Min(packed_size, Len(vga_pixels))),
            num_pixels)

\* longest plane buffer
MaxPlane == 2
\* largest width and height
MaxWidth == 3
MaxHeight == 2

\* Plane bytes: the nibble pairs (1,2) and (3,4), and a byte with a zero
\* low nibble.
PlaneBytes == {33, 67, 240}

Planes == SeqsUpTo(PlaneBytes, MaxPlane)

\* Before any call.
NibNew ==
    [pc |-> "idle", bin_pixels |-> << >>, vga_pixels |-> << >>,
     width |-> 0, height |-> 0, pixels |-> << >>]

NibIdle == nib = NibNew

\* combine_nibbles is about to be called.
NibInit ==
    \E b \in Planes, v \in Planes, w \in 0..MaxWidth, h \in 0..MaxHeight :
        nib = [pc |-> "call", bin_pixels |-> b, vga_pixels |-> v,
               width |-> w, height |-> h, pixels |-> << >>]

\* The call, from entry to return.
NibCombine ==
    /\ nib.pc = "call"
    /\ nib' = [nib EXCEPT
                  !.pc = "done",
                  !.pixels = CombineNibbles(nib.bin_pixels, nib.vga_pixels,
                                            nib.width, nib.height)]

NibNext == NibCombine

-----------------------------------------------------------------------------
\* process_scr_file: the pixel buffer handed to save_image

\* Mutant of ProcUnpack4: the high nibble of each byte comes first.
RECURSIVE ProcUnpack4_HighFirst(_, _, _, _)
ProcUnpack4_HighFirst(pixels, bin_pixels, i, n) ==
    IF i >= n THEN pixels
    ELSE LET byte == At(bin_pixels, i)
         IN  ProcUnpack4_HighFirst(
                 Store(Store(pixels, i * 2, BitAnd(byte \div 16, 15)),
                       i * 2 + 1, BitAnd(byte, 15)),
                 bin_pixels, i + 1, n)

\* The loop of the 4-bit single-plane branch, from pass i on.
RECURSIVE ProcUnpack4(_, _, _, _)
ProcUnpack4(pixels, bin_pixels, i, n) ==
    IF i >= n THEN pixels
    ELSE LET byte == At(bin_pixels, i)
         IN  ProcUnpack4(Store(Store(pixels, i * 2, BitAnd(byte, 15)),
                               i * 2 + 1, BitAnd(byte \div 16, 15)),
                         bin_pixels, i + 1, n)

\* The first argument of the save_image call that writes scr_<name>.png or
\* scr_<name>_raw.png, for a call that got as far as ProcRender.
ProcPixels(pr, st) ==
    LET bin_pixels == pr.bin_pixels.bytes
        width == st.result.width
        height == st.result.height
    IN  IF pr.mode = "combine"
        THEN CombineNibbles(bin_pixels, pr.vga_pixels.bytes, width, height)
        ELSE IF pr.mode = "unpack4"
        THEN ProcUnpack4(Bytearray(width * height), bin_pixels, 0,
                         Len(bin_pixels))
        ELSE bin_pixels

-----------------------------------------------------------------------------
\* _get_code called directly on a new DynamixLZW instance, any number of
\* times, with one position list and one buffer.

\* most bits asked of one call
MaxBits == 15
\* longest buffer
MaxBufLen == 3

\* bytes of the buffers: no bit set, alternating groups, every bit set
GcBytes == {0, 165, 255}

GcBuffers == SeqsUpTo(GcBytes, MaxBufLen)

\* The instance after __init__ and pos = [0]; no call made yet.
GcNew ==
    [pc |-> "idle", data |-> << >>, pos |-> 0, bits_data |-> 0,
     bits_size |-> 0, num_bits |-> 0, ok |-> TRUE, code |-> -1]

GcIdle == gc = GcNew

GcInit == \E data \in GcBuffers : gc = [GcNew EXCEPT !.pc = "ready",
                                                     !.data = data]

\* code, pos = self._get_code(num_bits, data, pos); code = -1 is None
GcCall ==
    /\ gc.pc = "ready"
    /\ \E n \in 1..MaxBits :
          LET g == GetCode(n, gc.data, gc)
          IN  gc' = [WithCursor(gc, g) EXCEPT
                        !.num_bits = n, !.ok = g.ok,
                        !.code = IF g.ok THEN g.code ELSE -1]

GcNext == GcCall

-----------------------------------------------------------------------------
\* The codec specification: one decompress_section call, the codec it selects
\* run one loop evaluation at a time.

CodecInit ==
    /\ sec_pc = "idle"
    /\ sec_data = << >>
    /\ sec_result = None
    /\ lzw = LZWNew
    /\ lzw_data = << >>
    /\ lzw_expected = 0
    /\ lzw_result = << >>
    /\ rle = [RLEEnter EXCEPT !.pc = "idle"]
    /\ rle_data = << >>
    /\ rle_expected = 0
    /\ rle_result = << >>

\* The machines a specification does not run stay as constructed.
ScrIdle == scr_data = << >> /\ scr = ScrNew /\ proc = ProcNew
CodecIdle == CodecInit

\* decompress_section(data) up to the call of the codec it selects.
SectionCall ==
    /\ sec_pc = "idle"
    /\ \E data \in SectionInputs :
          LET b == SectionBranch(data)
          IN  /\ sec_data' = data
              /\ sec_pc' = IF b \in {"rle", "lzw"} THEN b ELSE "done"
              /\ sec_result' =
                    IF b = "raw"
                    THEN Some(RawPassthrough(SectionPayload(data),
                                             SectionUncompSize(data)))
                    ELSE None
              /\ IF b = "lzw"
                 THEN /\ lzw' = LZWEnter(LZWNew)
                      /\ lzw_data' = SectionPayload(data)
                      /\ lzw_expected' = SectionUncompSize(data)
                 ELSE UNCHANGED << lzw, lzw_data, lzw_expected >>
              /\ IF b = "rle"
                 THEN /\ rle' = RLEEnter
                      /\ rle_data' = SectionPayload(data)
                      /\ rle_expected' = SectionUncompSize(data)
                 ELSE UNCHANGED << rle, rle_data, rle_expected >>
    /\ UNCHANGED << lzw_result, rle_result >>

\* One evaluation of the while loop of DynamixLZW.decompress.
LZWStep ==
    /\ lzw.pc = "loop"
    /\ lzw' = LZWLoopOnce(lzw, lzw_data, lzw_expected)
    /\ UNCHANGED << sec_pc, sec_data, sec_result, lzw_data, lzw_expected,
                    lzw_result, rle, rle_data, rle_expected, rle_result >>

\* The return statement of DynamixLZW.decompress.
LZWReturn ==
    /\ lzw.pc = "exit"
    /\ lzw_result' = LZWReturnValue(lzw.output, lzw_expected)
    /\ lzw' = [lzw EXCEPT !.pc = "done"]
    /\ UNCHANGED << sec_pc, sec_data, sec_result, lzw_data, lzw_expected,
                    rle, rle_data, rle_expected, rle_result >>

\* One evaluation of the while loop of decompress_rle.
RLEStep ==
    /\ rle.pc = "loop"
    /\ rle' = RLELoopOnce(rle, rle_data, rle_expected)
    /\ UNCHANGED << sec_pc, sec_data, sec_result, lzw, lzw_data, lzw_expected,
                    lzw_result, rle_data, rle_expected, rle_result >>

\* The return statement of decompress_rle.
RLEReturn ==
    /\ rle.pc = "exit"
    /\ rle_result' = RLEReturnValue(rle.output, rle_expected)
    /\ rle' = [rle EXCEPT !.pc = "done"]
    /\ UNCHANGED << sec_pc, sec_data, sec_result, lzw, lzw_data, lzw_expected,
                    lzw_result, rle_data, rle_expected >>

\* decompress_section returns what the codec returned.
SectionReturn ==
    /\ \/ sec_pc = "lzw" /\ lzw.pc = "done" /\ sec_result' = Some(lzw_result)
       \/ sec_pc = "rle" /\ rle.pc = "done" /\ sec_result' = Some(rle_result)
    /\ sec_pc' = "done"
    /\ UNCHANGED << sec_data, lzw, lzw_data, lzw_expected, lzw_result,
                    rle, rle_data, rle_expected, rle_result >>

CodecNext ==
    \/ SectionCall
    \/ LZWStep
    \/ LZWReturn
    \/ RLEStep
    \/ RLEReturn
    \/ SectionReturn

Init == CodecInit /\ ScrIdle /\ Lz77Idle /\ NibIdle /\ GcIdle

Next == CodecNext /\ UNCHANGED << scrVars, lzVars, nibVars, gcVars >>

Spec == Init /\ [][Next]_vars

SpecScrInit == ScrInit /\ CodecIdle /\ Lz77Idle /\ NibIdle /\ GcIdle

SpecScrNext ==
    ScrNext /\ UNCHANGED << codecVars, lzVars, nibVars, gcVars >>

SpecScr == SpecScrInit /\ [][SpecScrNext]_vars

SpecLz77Init == Lz77Init /\ CodecIdle /\ ScrIdle /\ NibIdle /\ GcIdle

SpecLz77Next ==
    Lz77Next /\ UNCHANGED << codecVars, scrVars, nibVars, gcVars >>

SpecLz77 == SpecLz77Init /\ [][SpecLz77Next]_vars

SpecNibblesInit == NibInit /\ CodecIdle /\ ScrIdle /\ Lz77Idle /\ GcIdle

SpecNibblesNext ==
    NibNext /\ UNCHANGED << codecVars, scrVars, lzVars, gcVars >>

SpecNibbles == SpecNibblesInit /\ [][SpecNibblesNext]_vars

SpecGetCodeInit == GcInit /\ CodecIdle /\ ScrIdle /\ Lz77Idle /\ NibIdle

SpecGetCodeNext ==
    GcNext /\ UNCHANGED << codecVars, scrVars, lzVars, nibVars >>

SpecGetCode == SpecGetCodeInit /\ [][SpecGetCodeNext]_vars

-----------------------------------------------------------------------------
\* The RLE specification: decompress_rle called directly on the output of an
\* encoder that emits whole chunks, with the total expansion as expected size.

\* most bytes in a literal chunk
MaxLiteral == 2
\* largest count of a run chunk
MaxRun == 2
\* most chunks in a stream
MaxChunks == 3

\* Literal bodies are cut from this pattern: data bytes that would read as a
\* run control, a no-op control and a literal control if they were controls.
RlePattern == << 131, 0, 2, 65 >>

RleValues == {65, 131}

\* A chunk as the encoder writes it.
LiteralChunk(n) == << n >> \o CyclicFill(RlePattern, n)
RunChunk(n, v) == << 128 + n, v >>

RleChunks ==
    { LiteralChunk(n) : n \in 0..MaxLiteral }
    \cup { RunChunk(n, v) : n \in 0..MaxRun, v \in RleValues }

\* What a chunk stands for.
ChunkExpansion(c) == IF c[1] >= 128 THEN Repeat(c[2], c[1] - 128) ELSE Tail(c)

RECURSIVE ExpandChunks(_)
ExpandChunks(cs) ==
    IF cs = << >> THEN << >>
    ELSE ChunkExpansion(Head(cs)) \o ExpandChunks(Tail(cs))

ChunkSeqs == SeqsUpTo(RleChunks, MaxChunks)

\* decompress_rle(data, expected_size) is entered.
RleCall ==
    /\ rle.pc = "idle"
    /\ \E cs \in ChunkSeqs :
          /\ rle' = RLEEnter
          /\ rle_data' = Flatten(cs)
          /\ rle_expected' = Len(ExpandChunks(cs))
    /\ UNCHANGED << sec_pc, sec_data, sec_result, lzw, lzw_data, lzw_expected,
                    lzw_result, rle_result >>

RleNext ==
    \/ RleCall
    \/ RLEStep
    \/ RLEReturn

SpecRleInit == CodecInit /\ ScrIdle /\ Lz77Idle /\ NibIdle /\ GcIdle

SpecRleNext == RleNext /\ UNCHANGED << scrVars, lzVars, nibVars, gcVars >>

SpecRle == SpecRleInit /\ [][SpecRleNext]_vars

-----------------------------------------------------------------------------
\* The LZW instance specification: one DynamixLZW object, decompress called on
\* it directly, and called again after it returns.

\* literal codes of the long stream before its clear code
LongCodes == 3845
\* literal codes of the long stream after its clear code
TailCodes == 3
\* most codes of a short literal/clear stream
MaxLitCodes == 4

Clamp(x, lo, hi) == IF x < lo THEN lo ELSE IF x > hi THEN hi ELSE x

\* The stream format: the k-th code after a reset is written with 9 bits up to
\* the 256th, 10 up to the 768th, 11 up to the 1792nd and 12 from then on.
\* SlotOffset(k) is the number of bits written before the k-th code.
SlotOffset(k) ==
    9 * Clamp(k - 1, 0, 256) + 10 * Clamp(k - 257, 0, 512)
    + 11 * Clamp(k - 769, 0, 1024) + 12 * Clamp(k - 1793, 0, k)

\* The code that holds bit b (counted from 0) of the stream.
SlotAt(b) ==
    IF b < SlotOffset(257) THEN 1 + (b \div 9)
    ELSE IF b < SlotOffset(769) THEN 257 + ((b - SlotOffset(257)) \div 10)
    ELSE IF b < SlotOffset(1793) THEN 769 + ((b - SlotOffset(769)) \div 11)
    ELSE 1793 + ((b - SlotOffset(1793)) \div 12)

\* The long stream: LongCodes literals 'A', 'B', 'A', ..., a clear code, zero
\* bits up to the end of the block of 8 codes, then TailCodes more literals.
LongLiteral(k) == IF k % 2 = 1 THEN 65 ELSE 66

LongClearSlot == LongCodes + 1

LongPaddedSlots == 8 * ((LongClearSlot + 7) \div 8)

LongSlotCode(k) ==
    IF k < LongClearSlot THEN LongLiteral(k)
    ELSE IF k = LongClearSlot THEN CLEAR_CODE
    ELSE 0

LongHeadBits == SlotOffset(LongPaddedSlots + 1)

LongTotalBits == LongHeadBits + 9 * TailCodes

LongBit(b) ==
    IF b >= LongTotalBits THEN 0
    ELSE IF b < LongHeadBits
    THEN LET k == SlotAt(b)
         IN  (LongSlotCode(k) \div Pow2(b - SlotOffset(k))) % 2
    ELSE LET t == b - LongHeadBits
         IN  (LongLiteral(LongCodes + 1 + (t \div 9)) \div Pow2(t % 9)) % 2

LongStream ==
    [j \in 1..((LongTotalBits + 7) \div 8) |->
        LongBit(8*j - 8) + 2 * LongBit(8*j - 7) + 4 * LongBit(8*j - 6)
        + 8 * LongBit(8*j - 5) + 16 * LongBit(8*j - 4) + 32 * LongBit(8*j - 3)
        + 64 * LongBit(8*j - 2) + 128 * LongBit(8*j - 1)]

LongLiterals == [k \in 1..(LongCodes + TailCodes) |-> LongLiteral(k)]

\* Short streams: the codes in 9-bit slots, zero slots after a clear code up
\* to the end of its block of 8.  in_block = slots used since the last reset.
RECURSIVE BlockSlots(_, _)
BlockSlots(codes, in_block) ==
    IF codes = << >> THEN << >>
    ELSE IF Head(codes) = CLEAR_CODE
    THEN << CLEAR_CODE >> \o Repeat(0, 7 - (in_block % 8))
         \o BlockSlots(Tail(codes), 0)
    ELSE << Head(codes) >> \o BlockSlots(Tail(codes), in_block + 1)

EncodeCodes(codes) == PackCodes(BlockSlots(codes, 0))

IsLiteralCode(c) == c # CLEAR_CODE

LiteralsOf(codes) == SelectSeq(codes, IsLiteralCode)

\* Literal 'A', the largest literal, and the clear code.
LitClearSeqs == SeqsUpTo({65, 255, CLEAR_CODE}, MaxLitCodes)

\* << data, expected_size, the literal bytes written into data >>
LitClearCalls ==
    { << EncodeCodes(cs), Len(LiteralsOf(cs)), LiteralsOf(cs) >> :
          cs \in LitClearSeqs }
    \cup { << LongStream, Len(LongLiterals), LongLiterals >> }

\* Calls made on a used instance: a size stop in mid-byte with a grown table,
\* the code of the entry being built, a stream that opens with a clear
\* block, an empty stream, an invalid code, and a stream cut inside a code.
ReuseCalls ==
    { << PackCodes(<< 65, 66, 257 >>), 4 >>,
      << PackCodes(<< 65, 257 >>), 3 >>,
      << ClearBlock \o PackCodes(<< 66 >>), 1 >>,
      << << >>, 2 >>,
      << PackCodes(<< 65, 511 >>), 2 >>,
      << << 65 >>, 1 >> }

\* Calls for the block alignment: a clear code that is the eighth code of
\* its block, and a stream that ends inside the padding after a clear code.
AlignCalls ==
    { << EncodeCodes(<< 65, 66, 65, 66, 65, 66, 65, CLEAR_CODE, 66 >>), 8 >>,
      << PackCodes(<< 65, CLEAR_CODE >>), 2 >> }

\* A call whose last code is the code of the entry being built while the
\* previous string has two different bytes: 'A', 'B', "AB", then 259.
SelfRefCalls == { << PackCodes(<< 65, 66, 257, 259 >>), 7 >> }

\* The long stream is also decoded with a size that is reached while the
\* table is full.
FirstCalls ==
    { << c[1], c[2] >> : c \in LitClearCalls }
    \cup { << LongStream, LongCodes - 2 >> }
    \cup ReuseCalls
    \cup AlignCalls
    \cup SelfRefCalls

\* n evaluations of the loop of decompress, or fewer if it exits before.
RECURSIVE LZWPasses(_, _, _, _)
LZWPasses(st, data, expected, n) ==
    IF n = 0 \/ st.pc # "loop" THEN st
    ELSE IF n = 1 THEN LZWLoopOnce(st, data, expected)
    ELSE LZWPasses(LZWPasses(st, data, expected, n \div 2), data, expected,
                   n - (n \div 2))

\* Numbers of loop passes after which a call on the long stream is first
\* looked at: one entry short of each power of two the table size reaches,
\* all the codes before the clear code, and the whole stream.
AheadPasses == {255, 767, 1791, 3839, LongCodes, LongCodes + TailCodes + 1}

\* lzw.decompress(data, expected_size) is entered, on the new instance or on
\* the instance as the last call left it.
LzwCall ==
    /\ lzw.pc \in {"idle", "done"}
    /\ \E c \in (IF lzw.pc = "idle" THEN FirstCalls ELSE ReuseCalls) :
          /\ lzw' = LZWEnter(lzw)
          /\ lzw_data' = c[1]
          /\ lzw_expected' = c[2]
    /\ UNCHANGED << sec_pc, sec_data, sec_result, lzw_result,
                    rle, rle_data, rle_expected, rle_result >>

\* decompress is entered on the long stream and its loop has run n passes.
\* The states passed over are those LzwCall and LZWStep go through.
LzwCallAhead ==
    /\ lzw.pc = "idle"
    /\ \E c \in FirstCalls, n \in AheadPasses :
          /\ c[1] = LongStream
          /\ lzw' = LZWPasses(LZWEnter(lzw), c[1], c[2], n)
          /\ lzw_data' = c[1]
          /\ lzw_expected' = c[2]
    /\ UNCHANGED << sec_pc, sec_data, sec_result, lzw_result,
                    rle, rle_data, rle_expected, rle_result >>

LzwNext ==
    \/ LzwCall
    \/ LzwCallAhead
    \/ LZWStep
    \/ LZWReturn

SpecLzwInit == CodecInit /\ ScrIdle /\ Lz77Idle /\ NibIdle /\ GcIdle

SpecLzwNext == LzwNext /\ UNCHANGED << scrVars, lzVars, nibVars, gcVars >>

SpecLzw == SpecLzwInit /\ [][SpecLzwNext]_vars

-----------------------------------------------------------------------------
\* Claims.

\* The uncompressed size a payload declares, read byte by byte.
DeclaredSize(data) ==
    data[2] + 256 * data[3] + 65536 * data[4] + 16777216 * data[5]

\* q is the first Len(q) elements of s
IsPrefix(q, s) == Len(q) <= Len(s) /\ \A k \in 1..Len(q) : q[k] = s[k]

\* C1 (as claimed): every buffer a codec call returns through
\* decompress_section has length exactly the declared uncompressedSize.
C1_ExactLength ==
    (sec_pc = "done" /\ ~sec_result.none)
        => Len(sec_result.bytes) = DeclaredSize(sec_data)

\* C1 (amended): the returned buffer is never longer than the declared size;
\* it has exactly that length when the decoder produced at least that many
\* bytes, and otherwise is the shorter output produced before the stream
\* (raw: the payload) ran out or an invalid LZW code stopped decoding.
C1_ClampedLength ==
    (sec_pc = "done" /\ ~sec_result.none) =>
        LET n == DeclaredSize(sec_data)
            got == Len(sec_result.bytes)
            t == sec_data[1]
        IN  /\ got <= n
            /\ t = 0 => got = Min(n, Len(sec_data) - 5)
            /\ t = 1 => /\ got = Min(n, Len(rle.output))
                        /\ got < n => (rle.stop = "break" \/ rle.pos >= Len(rle_data))
            /\ t = 2 => /\ got = Min(n, Len(lzw.output))
                        /\ got < n => lzw.stop \in {"eos", "invalid"}

\* C1 witness: an LZW call that ran out of input with some output produced.
C1_Witness ==
    /\ sec_pc = "done" /\ sec_data # << >> /\ sec_data[1] = 2
    /\ lzw.stop = "eos"
    /\ Len(sec_result.bytes) > 0
    /\ Len(sec_result.bytes) < DeclaredSize(sec_data)

\* C2: the codecs never return more than expected_size bytes: the returned
\* buffer is the output cut to min(len(output), expected_size); and a loop
\* evaluation that finds the output at the expected length, or the input
\* exhausted, leaves the loop without producing anything.
C2_NeverLonger ==
    /\ [](lzw.pc = "done" =>
            /\ Len(lzw_result) = Min(Len(lzw.output), lzw_expected)
            /\ IsPrefix(lzw_result, lzw.output))
    /\ [](rle.pc = "done" =>
            /\ Len(rle_result) = Min(Len(rle.output), rle_expected)
            /\ IsPrefix(rle_result, rle.output))
    /\ []((sec_pc = "done" /\ Len(sec_data) >= 5 /\ sec_data[1] = 0) =>
            /\ Len(sec_result.bytes) <= DeclaredSize(sec_data)
            /\ \A k \in 1..Len(sec_result.bytes) :
                  sec_result.bytes[k] = sec_data[5 + k])
    /\ [][ /\ (lzw.pc = "loop" /\ (\/ Len(lzw.output) >= lzw_expected
                                    \/ lzw.pos >= Len(lzw_data)))
               => (lzw'.pc = "exit" /\ lzw'.output = lzw.output)
           /\ (rle.pc = "loop" /\ (\/ Len(rle.output) >= rle_expected
                                    \/ rle.pos >= Len(rle_data)))
               => (rle'.pc = "exit" /\ rle'.output = rle.output) ]_vars

\* C2 witness: the last dictionary string overran the expected length and
\* was cut.
C2_Witness ==
    /\ lzw.pc = "done"
    /\ lzw_expected > 0
    /\ Len(lzw.output) > lzw_expected
    /\ Len(lzw_result) = lzw_expected

\* The code just read is neither the clear code, nor a dictionary entry, nor
\* the next entry with a previous string present (st is the decoder before
\* the dispatch; the read does not change these fields).
IsInvalidCode(st, code) ==
    /\ code # 256
    /\ ~(code < 256 \/ (code >= 257 /\ code < st.table_size))
    /\ ~(code = st.table_size /\ st.prev_string # << >>)

\* Bits of the input consumed so far: whole bytes fetched less the bits still
\* pending in the sub-byte buffer.
BitsConsumed(st) == 8 * st.pos - st.bits_size

\* C3: DynamixLZW.decompress terminates: every loop evaluation that stays in
\* the loop consumes at least 9 more bits of the input (also on a clear
\* code) and the bits consumed never exceed the bits of the buffer, so the
\* loop is evaluated at most 8*len(data)/9 + 1 times.  The loop is left
\* only because the output reached expected_size, because the bit reader
\* ran out of input, or because an invalid code was read; the call then
\* returns the bytes produced so far.
C3_Terminates ==
    /\ [][ (lzw.pc = "loop" /\ lzw'.pc = "loop")
              => BitsConsumed(lzw') >= BitsConsumed(lzw) + 9 ]_vars
    /\ [](lzw.pc # "idle" =>
            /\ 0 <= BitsConsumed(lzw)
            /\ BitsConsumed(lzw) <= 8 * Len(lzw_data))
    /\ [](lzw.pc = "done" => IsPrefix(lzw_result, lzw.output))
    /\ [](lzw.pc \in {"exit", "done"} =>
            \/ lzw.stop = "size" /\ Len(lzw.output) >= lzw_expected
            \/ /\ lzw.stop = "eos"
               /\ lzw.code = -1
               /\ lzw.pos >= Len(lzw_data)
               /\ lzw.bits_size = 0
               /\ Len(lzw.output) < lzw_expected
            \/ /\ lzw.stop = "invalid"
               /\ IsInvalidCode(lzw, lzw.code)
               /\ Len(lzw.output) < lzw_expected)

\* C3 witness: a stream made only of clear codes was decoded to its end.
C3_Witness ==
    /\ lzw.pc = "done"
    /\ lzw_data = ClearBlock \o << 0, 1 >>
    /\ lzw_expected > 0
    /\ lzw.stop = "eos"

\* C7: decompress_section on a payload of at least 5 bytes: type 0 returns
\* the bytes after the sub-header limited to the declared size and runs no
\* codec, type 1 returns what the RLE decoder returns for those bytes and
\* that size, type 2 what the LZW decoder returns; any other type runs no
\* codec and returns None.
C7_Dispatch ==
    (sec_pc = "done" /\ Len(sec_data) >= 5) =>
        LET t == sec_data[1]
            n == DeclaredSize(sec_data)
            rest == SubSeq(sec_data, 6, Len(sec_data))
        IN  /\ t = 0 => /\ sec_result = Some(SubSeq(rest, 1, Min(n, Len(rest))))
                        /\ lzw.pc = "idle" /\ rle.pc = "idle"
            /\ t = 1 => /\ rle.pc = "done" /\ lzw.pc = "idle"
                        /\ rle_data = rest /\ rle_expected = n
                        /\ sec_result = Some(rle_result)
            /\ t = 2 => /\ lzw.pc = "done" /\ rle.pc = "idle"
                        /\ lzw_data = rest /\ lzw_expected = n
                        /\ sec_result = Some(lzw_result)
            /\ t \notin {0, 1, 2} => /\ sec_result = None
                                     /\ lzw.pc = "idle" /\ rle.pc = "idle"

\* C7 witness: a full sub-header with an unrecognized type byte was answered
\* with None.
C7_Witness ==
    /\ sec_pc = "done"
    /\ Len(sec_data) > 5
    /\ sec_data[1] = 255
    /\ sec_result.none

\* C10: a loop evaluation that reads an invalid code leaves the loop at once
\* with the output and the dictionary as they were, and the call returns
\* exactly the output accumulated before that code.
C10_InvalidCodeStops ==
    /\ [][ (/\ lzw.pc = "loop"
            /\ Len(lzw.output) < lzw_expected
            /\ lzw'.code # -1
            /\ IsInvalidCode(lzw, lzw'.code))
           => /\ lzw'.pc = "exit"
              /\ lzw'.stop = "invalid"
              /\ lzw'.output = lzw.output
              /\ lzw'.table = lzw.table
              /\ lzw'.table_size = lzw.table_size ]_vars
    /\ []((lzw.pc = "done" /\ lzw.stop = "invalid") => lzw_result = lzw.output)

\* C10 witness: after a clear code the first code was 257 or larger, and the
\* call returned.
C10_Witness ==
    /\ lzw.pc = "done"
    /\ lzw.stop = "invalid"
    /\ lzw.code >= 257
    /\ lzw.prev_string = << >>
    /\ lzw.pos > 9

\* The size a child header at offset pos declares, bit 31 cleared.
ChildSize(data, pos) ==
    data[pos + 5] + 256 * data[pos + 6] + 65536 * data[pos + 7]
        + 16777216 * (data[pos + 8] % 128)

\* The walker is at a child section with a complete header and an ASCII tag
\* whose declared size runs past the end of the buffer.
AtTruncatedSection ==
    /\ scr.pc = "loop"
    /\ scr.pos + 8 <= Len(scr_data)
    /\ \A k \in 1..4 : scr_data[scr.pos + k] < 128
    /\ scr.pos + 8 + ChildSize(scr_data, scr.pos) > Len(scr_data)

\* C4 (as claimed): at a child section whose declared size runs past the end
\* of the buffer the walker stops without raising and records nothing of it:
\* no payload and no dimensions.
C4_TruncatedNotRecorded ==
    [][ AtTruncatedSection =>
            (scr'.pc = "done" /\ scr'.result = scr.result) ]_vars

\* C5 (as claimed): parse_scr_file never raises on a buffer that begins with
\* 'SCR:'.
C5_NeverRaises ==
    (scr.pc = "raised") => SubSeq(scr_data, 1, 4) # TAG_SCR

\* C6: every pass of the child-section loop that visits a section moves the
\* offset by exactly 8 + size (the declared u32 with bit 31 cleared), so the
\* offset grows, the sections visited lie one after the other in the buffer
\* with their headers inside it, and the walk ends: the offset only grows
\* and a pass is made only while it is below the buffer length.
C6_Advance ==
    /\ [][ (scr.pc = "loop" /\ scr'.pc = "loop") =>
              /\ scr.pos < Len(scr_data)
              /\ scr'.pos = scr.pos + 8 + ChildSize(scr_data, scr.pos)
              /\ scr'.pos > scr.pos
              /\ scr'.visited
                    = Append(scr.visited,
                             << scr.pos, ChildSize(scr_data, scr.pos) >>) ]_vars
    /\ [](\A i \in 1..Len(scr.visited) :
            /\ scr.visited[i][1] >= 8
            /\ scr.visited[i][1] + 8 <= Len(scr_data)
            /\ i > 1 => scr.visited[i][1]
                          = scr.visited[i-1][1] + 8 + scr.visited[i-1][2])

\* C6 witness: two sections were visited, the first with bit 31 set in its
\* size field, and the walk ended.
C6_Witness ==
    /\ scr.pc = "done"
    /\ Len(scr.visited) = 2
    /\ scr_data[scr.visited[1][1] + 8] >= 128
    /\ scr.pos = Len(scr_data)

\* decompress_section fails on this payload: sub-header shorter than 5
\* bytes or unrecognized compression byte.
SectionFails(payload) == Len(payload) < 5 \/ payload[1] \notin {0, 1, 2}

\* C8 (as claimed): a failed BIN: section does not prevent the VGA: section
\* from being decoded, and the file is not failed.
C8_BinFailureIsolated ==
    (/\ proc.pc = "done"
     /\ ~scr.result.bin_data.none
     /\ SectionFails(scr.result.bin_data.bytes)
     /\ ~scr.result.vga_data.none)
        => (proc.vga_called /\ proc.ret = "True")

\* C8 (amended): a failed VGA: section does not fail the file: the BIN:
\* plane decoded before it is kept and used alone.  A failed BIN: section
\* ends the processing of the file with False, and VGA: is then not decoded.
C8_VgaFailureIsolated ==
    (proc.pc = "done" /\ ~scr.result.bin_data.none) =>
        /\ SectionFails(scr.result.bin_data.bytes) =>
              /\ proc.ret = "False"
              /\ ~proc.vga_called
              /\ proc.vga_pixels.none
        /\ (/\ ~SectionFails(scr.result.bin_data.bytes)
            /\ ~scr.result.vga_data.none
            /\ SectionFails(scr.result.vga_data.bytes)) =>
              /\ proc.ret = "True"
              /\ proc.vga_called
              /\ proc.vga_pixels.none
              /\ ~proc.bin_pixels.none
              /\ proc.mode \in {"direct8", "unpack4", "raw"}

\* C8 witness: a file whose VGA: section failed was processed to the end.
C8_Witness ==
    /\ proc.pc = "done"
    /\ proc.ret = "True"
    /\ proc.vga_called
    /\ ~scr.result.vga_data.none
    /\ SectionFails(scr.result.vga_data.bytes)

\* C9 (as claimed): decompress_lz77 never aborts with an exception; when the
\* buffer ends early it returns the output produced so far.
C9_ReturnsOnShortInput == lz.pc # "raised"

-----------------------------------------------------------------------------
\* decompress_rle on chunked streams

\* data is a concatenation of whole chunks
RECURSIVE RleWellFormed(_)
RleWellFormed(data) ==
    IF data = << >> THEN TRUE
    ELSE IF data[1] >= 128
    THEN Len(data) >= 2 /\ RleWellFormed(SubSeq(data, 3, Len(data)))
    ELSE Len(data) >= 1 + data[1]
         /\ RleWellFormed(SubSeq(data, 2 + data[1], Len(data)))

\* the concatenation of the expansions of the chunks of a well-formed stream
RECURSIVE RleExpansion(_)
RleExpansion(data) ==
    IF data = << >> THEN << >>
    ELSE IF data[1] >= 128
    THEN [k \in 1..(data[1] - 128) |-> data[2]]
         \o RleExpansion(SubSeq(data, 3, Len(data)))
    ELSE SubSeq(data, 2, 1 + data[1])
         \o RleExpansion(SubSeq(data, 2 + data[1], Len(data)))

\* C11: for a stream that is a concatenation of well-formed chunks (literal:
\* control n in 0..127 and n bytes, n = 0 a one-byte no-op; run: control
\* 0x80|n and one value byte), decompress_rle with the total expansion length
\* as expected size returns exactly the concatenation of the expansions.
C11_ChunkRoundTrip ==
    (/\ rle.pc = "done"
     /\ RleWellFormed(rle_data)
     /\ rle_expected = Len(RleExpansion(rle_data)))
    => rle_result = RleExpansion(rle_data)

\* A returned call on a stream of three chunks: a literal whose bytes read as
\* controls, the no-op or an empty run, and a run, with bytes returned.
C11_Witness ==
    /\ rle.pc = "done"
    /\ \E v \in RleValues, n \in 1..MaxRun, z \in {<< 0 >>, << 128, 65 >>} :
          /\ rle_data = << 2, 131, 0 >> \o z \o << 128 + n, v >>
          /\ rle_expected = 2 + n
          /\ rle_result = << 131, 0 >> \o [k \in 1..n |-> v]

-----------------------------------------------------------------------------
\* DynamixLZW.decompress on streams of literal and clear codes

\* C12: for a stream whose codes are only literals (0..255) and clear codes
\* (0x100), decoded with the number of literal codes as expected size,
\* decompress returns exactly the literal bytes in order, through every
\* dictionary entry, code-size increase and reset it performs on the way.
C12_LiteralsDecodeToThemselves ==
    lzw.pc = "done"
    => \A c \in LitClearCalls :
          (lzw_data = c[1] /\ lzw_expected = c[2]) => lzw_result = c[3]

\* The long stream has returned: every code size was used, the table filled
\* up, a clear code reset it, and the literals after the clear were read at
\* 9 bits again.
C12_Witness ==
    /\ lzw.pc = "done"
    /\ lzw_data = LongStream
    /\ Len(lzw_result) = LongCodes + TailCodes
    /\ lzw.code_size = 9
    /\ lzw.table_size = 257 + TailCodes - 1

-----------------------------------------------------------------------------
\* combine_nibbles

\* the number of bytes of a plane that combine_nibbles can use
UsedBytes(plane) == Min(Len(plane), (nib.width * nib.height) \div 2)

\* C13: for every i below width*height/2 with both plane bytes present,
\* pixel[2i] is the low nibble of bin[i] with the high nibble of vga[i] above
\* it and pixel[2i+1] is the high nibble of bin[i] with the low nibble of
\* vga[i] above it; bin 0x21 with vga 0x43 gives 0x41, 0x32.
C13_NibbleOrder ==
    nib.pc = "done"
    => /\ \A i \in 0..((nib.width * nib.height) \div 2 - 1) :
             (i < Len(nib.bin_pixels) /\ i < Len(nib.vga_pixels))
             => LET b == nib.bin_pixels[i + 1]
                    v == nib.vga_pixels[i + 1]
                IN  /\ nib.pixels[2 * i + 1] = (b % 16) + 16 * (v \div 16)
                    /\ nib.pixels[2 * i + 2] = (b \div 16) + 16 * (v % 16)
       /\ (/\ UsedBytes(nib.bin_pixels) >= 1
           /\ UsedBytes(nib.vga_pixels) >= 1
           /\ nib.bin_pixels[1] = 33
           /\ nib.vga_pixels[1] = 67)
          => (nib.pixels[1] = 65 /\ nib.pixels[2] = 50)

\* Both planes have two bytes in use: BIN 0x21, 0x43 and VGA 0x43, 0xF0.
C13_Witness ==
    /\ nib.pc = "done"
    /\ nib.bin_pixels = << 33, 67 >>
    /\ nib.vga_pixels = << 67, 240 >>
    /\ nib.width * nib.height = 4
    /\ nib.pixels = << 65, 50, 243, 4 >>

\* C14: combine_nibbles returns exactly width*height palette indices, each in
\* 0..255, whatever the lengths of the planes: bytes of a plane beyond
\* width*height/2 change nothing, and where a plane has no byte in use the
\* pixel has nibble 0 from that plane.
C14_SizeAndPadding ==
    nib.pc = "done"
    => /\ nib.pixels # IndexError
       /\ Len(nib.pixels) = nib.width * nib.height
       /\ \A p \in 1..Len(nib.pixels) :
             /\ nib.pixels[p] \in 0..255
             /\ (p - 1) \div 2 >= UsedBytes(nib.bin_pixels)
                => nib.pixels[p] % 16 = 0
             /\ (p - 1) \div 2 >= UsedBytes(nib.vga_pixels)
                => nib.pixels[p] \div 16 = 0
       /\ nib.pixels =
             CombineNibbles(
                 SubSeq(nib.bin_pixels, 1, UsedBytes(nib.bin_pixels)),
                 SubSeq(nib.vga_pixels, 1, UsedBytes(nib.vga_pixels)),
                 nib.width, nib.height)

\* Three pixels: the BIN plane has a byte too many, the VGA plane none, and
\* the odd last pixel has no byte in either.
C14_Witness ==
    /\ nib.pc = "done"
    /\ nib.width * nib.height = 3
    /\ nib.bin_pixels = << 33, 67 >>
    /\ nib.vga_pixels = << >>
    /\ nib.pixels = << 1, 2, 0 >>

-----------------------------------------------------------------------------
\* DynamixLZW.decompress on a used instance

\* C15: a decode call carries nothing over from earlier calls.  A call on an
\* instance that has decoded before starts in the state in which a call on a
\* new instance starts, and what it returns is what DynamixLZW().decompress
\* returns for the same data and size.
C15_NoCarryOver ==
    /\ [](lzw.pc = "done" /\ lzw_data # LongStream
          => lzw_result = LZWDecompress(lzw_data, lzw_expected))
    /\ [][lzw.pc = "done" /\ lzw'.pc # "done"
          => lzw' = LZWEnter(LZWNew)]_vars

\* The earlier call decoded the long stream and stopped on its size with the
\* table full, inside a block of codes; the call after it has read
\* 'A' and the code of the entry being built and is about to return.
C15_Witness ==
    /\ lzw_result = SubSeq(LongLiterals, 1, LongCodes - 2)
    /\ lzw.pc = "exit"
    /\ lzw_data = PackCodes(<< 65, 257 >>)
    /\ lzw_expected = 3
    /\ lzw.output = << 65, 65, 65 >>

-----------------------------------------------------------------------------
\* parse_scr_file: size fields and unknown tags

KnownTags == {TAG_DIM, TAG_BIN, TAG_VGA, TAG_VQT}

\* The walker is at a child section with a complete header whose tag is not
\* one of the known tags.
AtUnknownTag ==
    /\ scr.pc = "loop"
    /\ scr.pos + 8 <= Len(scr_data)
    /\ SubSeq(scr_data, scr.pos + 1, scr.pos + 4) \notin KnownTags

\* What the claim says of the pass over such a section: it is logged with
\* its offset and size, the walk goes on 8 + size further, and the
\* dimensions and payloads are as before.
UnknownTagSkipped ==
    /\ scr'.pc = "loop"
    /\ scr'.pos = scr.pos + 8 + ChildSize(scr_data, scr.pos)
    /\ scr'.visited
          = Append(scr.visited, << scr.pos, ChildSize(scr_data, scr.pos) >>)
    /\ scr'.result = scr.result

\* C17 (as claimed): a child section whose tag is not one of DIM:, BIN:,
\* VGA:, VQT: is recorded with its span and skipped, and the walk goes on
\* with the sections after it.
C17_UnknownTagSkipped ==
    [][ AtUnknownTag => UnknownTagSkipped ]_vars

\* C17 (amended): the same for a tag of four ASCII bytes.  (Four bytes that
\* are not ASCII end the walk: they and the sections after them are not
\* looked at.)
C17_UnknownAsciiTagSkipped ==
    [][ (AtUnknownTag /\ \A k \in 1..4 : scr_data[scr.pos + k] < 128)
            => UnknownTagSkipped ]_vars

\* The section 'XYZ:' at offset 8 was skipped and the BIN: section after it
\* was parsed and kept.
C17_Witness ==
    /\ scr.pc = "done"
    /\ Len(scr.visited) = 2
    /\ scr.visited[1] = << 8, 2 >>
    /\ SubSeq(scr_data, 9, 12) = << 88, 89, 90, 58 >>
    /\ scr.visited[2][1] = 18
    /\ SubSeq(scr_data, 19, 22) = TAG_BIN
    /\ ~scr.result.bin_data.none
    /\ scr.result.bin_data.bytes # << >>
    /\ scr.result.vga_data.none
    /\ scr.result.width = WIDTH

-----------------------------------------------------------------------------
\* decompress_lz77: the decisions

\* decisions taken so far: 8 for each group begun and tail_bits for the
\* tail, less those the current flag byte still has to give
DecisionsMade(st) ==
    IF st.in_tail THEN 8 * (st.groups_m1 + 1) + st.tail_bits - st.left
    ELSE 8 * st.g - st.left

\* decisions already taken from the current flag byte
TakenOfFlag(st) == (IF st.in_tail THEN st.tail_bits ELSE 8) - st.left

\* The bit of the flag byte as read that decides next: bit 7 first, bit 0
\* eighth; a tail longer than 8 goes on with zero bits.
DecidingBit(st) ==
    LET k == TakenOfFlag(st)
        read == st.flag \div Pow2(k)
    IN  IF k <= 7 THEN (read \div Pow2(7 - k)) % 2 ELSE 0

\* C18: a call that returns has taken exactly 8*(groups_m1+1) + tail_bits
\* decisions.  Each group reads one flag byte and takes 8 decisions from it,
\* bit 7 first; after the groups one more flag byte is read for exactly
\* tail_bits decisions, and none is read when tail_bits is 0.  A literal
\* decision takes one byte and adds one byte to the output, a copy decision
\* takes two and adds its copy length (low nibble + 3), so the output length
\* is the number of literals plus the sum of the copy lengths; nothing else
\* bounds it.
C18_DecisionCount ==
    /\ [](lz.pc = "done" =>
            /\ DecisionsMade(lz) = 8 * (lz.groups_m1 + 1) + lz.tail_bits
            /\ lz.g = lz.groups_m1 + 1
            /\ lz.in_tail = (lz.tail_bits > 0))
    /\ [](lz.pc = "bit" =>
            /\ lz.left >= 1
            /\ lz.flag % Pow2(TakenOfFlag(lz)) = 0
            /\ lz.flag \div Pow2(TakenOfFlag(lz)) \in 0..255)
    /\ [][ (lz.pc = "bit" /\ lz'.pc # "raised") =>
              /\ DecisionsMade(lz') = DecisionsMade(lz) + 1
              /\ IF DecidingBit(lz) = 0
                 THEN /\ lz'.si = lz.si + 1
                      /\ Len(lz'.output) = Len(lz.output) + 1
                 ELSE /\ lz'.si = lz.si + 2
                      /\ Len(lz'.output)
                            = Len(lz.output) + (lz_data[lz.si + 1] % 16) + 3 ]_vars
    /\ [][ (lz.pc = "flag" /\ lz'.pc = "bit") =>
              /\ lz'.flag = lz_data[lz.si + 1]
              /\ lz'.si = lz.si + 1
              /\ lz'.output = lz.output
              /\ DecisionsMade(lz') = DecisionsMade(lz)
              /\ lz'.left = IF lz.g < lz.groups_m1 + 1 THEN 8
                            ELSE lz.tail_bits ]_vars
    /\ [][ (lz.pc = "flag" /\ lz.g = lz.groups_m1 + 1
              /\ (lz.tail_bits = 0 \/ lz.in_tail)) =>
              (lz'.pc = "done" /\ lz'.si = lz.si
               /\ lz'.output = lz.output) ]_vars

\* A call with one group and a tail of two has returned after 10 decisions,
\* copies and literals among them: two flag bytes were read and the output
\* has more bytes than there were decisions.
C18_Witness ==
    /\ lz.pc = "done"
    /\ lz.groups_m1 = 0
    /\ lz.tail_bits = 2
    /\ DecisionsMade(lz) = 10
    /\ Len(lz.output) > 10
    /\ lz.si > lz_offset + 3 + 2 + 10
    /\ lz.si < lz_offset + 3 + 2 + 20

-----------------------------------------------------------------------------
\* DynamixLZW: the dictionary and the code size

\* the instance is inside decompress
LzwRunning == lzw.pc \in {"loop", "exit"}

\* one evaluation of the loop of decompress that entered the body and read
\* a code
LzwReadCode ==
    lzw.pc = "loop" /\ LZWGuard(lzw, lzw_expected) /\ lzw'.code # -1

\* C19: while decompress runs the code size is in 9..12, table_max is
\* 2^code_size, 257 <= table_size <= table_max <= 4096 and table_full holds
\* exactly when table_size is 4096; one emitted code adds at most one entry;
\* once the table is full a code other than the clear code adds no entry and
\* leaves the code size at 12, and the clear code brings back 257 entries,
\* code size 9 and a table that is not full.
C19_TableInvariants ==
    /\ [](LzwRunning =>
            /\ lzw.code_size \in 9..12
            /\ lzw.table_max = Pow2(lzw.code_size)
            /\ 257 <= lzw.table_size
            /\ lzw.table_size <= lzw.table_max
            /\ lzw.table_max <= 4096
            /\ Len(lzw.table) = lzw.table_size - 257
            /\ lzw.table_full = (lzw.table_size = 4096))
    /\ [][ (LzwReadCode /\ lzw'.code # CLEAR_CODE) =>
              /\ lzw'.table_size \in {lzw.table_size, lzw.table_size + 1}
              /\ Len(lzw'.output) = Len(lzw.output) =>
                    lzw'.table_size = lzw.table_size
              /\ lzw.table_full =>
                    /\ lzw'.table = lzw.table
                    /\ lzw'.table_size = 4096
                    /\ lzw'.code_size = 12
                    /\ lzw'.table_full ]_vars
    /\ [][ (LzwReadCode /\ lzw'.code = CLEAR_CODE) =>
              /\ lzw'.table_size = 257
              /\ lzw'.code_size = 9
              /\ ~lzw'.table_full ]_vars

\* The table is full and two further codes have been emitted from it since:
\* 3842 literals are out, the table still has 4096 entries and the codes
\* still have 12 bits.
C19_Witness ==
    /\ lzw.pc = "loop"
    /\ lzw_data = LongStream
    /\ lzw.table_full
    /\ lzw.table_size = 4096
    /\ lzw.code_size = 12
    /\ lzw.code \in 0..255
    /\ Len(lzw.output) = 3842

\* C20: one evaluation of the loop raises the code size by one exactly when
\* it adds the entry that makes the table size 2^code_size while the code
\* size is below 12, which is at 512, 1024 and 2048 entries; the code read
\* by an evaluation has the width the evaluation before it left; the code
\* size goes down only to 9, on the clear code.
C20_CodeSizeGrowth ==
    /\ [][ lzw.pc = "loop" =>
              /\ (lzw'.code_size = lzw.code_size + 1)
                    <=> /\ lzw'.table_size = lzw.table_size + 1
                        /\ lzw'.table_size = Pow2(lzw.code_size)
                        /\ lzw.code_size < 12
              /\ lzw'.code_size = lzw.code_size + 1 =>
                    /\ lzw'.table_size \in {512, 1024, 2048}
                    /\ lzw'.table_max = 2 * lzw'.table_size
              /\ lzw'.code_size \in {lzw.code_size, lzw.code_size + 1, 9}
              /\ lzw'.code_size < lzw.code_size =>
                    (lzw'.code = CLEAR_CODE /\ lzw'.code_size = 9) ]_vars
    /\ [][ (LzwReadCode /\ lzw'.code # CLEAR_CODE) =>
              BitsTaken(lzw') = BitsTaken(lzw) + lzw.code_size ]_vars

\* The code that added entry 2047 has just been handled: the table has 2048
\* entries and the next code will be read with 12 bits.
C20_Witness ==
    /\ lzw.pc = "loop"
    /\ lzw_data = LongStream
    /\ lzw.table_size = 2048
    /\ lzw.code_size = 12
    /\ lzw.table_max = 4096
    /\ ~lzw.table_full
    /\ Len(lzw.output) = 1792

-----------------------------------------------------------------------------
\* DynamixLZW: the clear code

\* decompress has just handled a clear code
AfterClear == lzw.pc = "loop" /\ lzw.code = CLEAR_CODE

\* C21: the loop pass that reads a clear code leaves the output as it was,
\* the table with its 257 initial entries, code size 9, not full, and no
\* previous string; the read position does not go back; the pass after it
\* adds no entry, whatever code it reads.
C21_ClearCode ==
    /\ [](AfterClear =>
            /\ lzw.table = << >>
            /\ lzw.table_size = 257
            /\ lzw.code_size = 9
            /\ lzw.table_max = 512
            /\ ~lzw.table_full
            /\ lzw.prev_string = NoPrev)
    /\ [][ (LzwReadCode /\ lzw'.code = CLEAR_CODE) =>
              /\ lzw'.pc = "loop"
              /\ lzw'.output = lzw.output
              /\ lzw'.pos >= lzw.pos
              /\ BitsTaken(lzw') >= BitsTaken(lzw) + lzw.code_size ]_vars
    /\ [][ AfterClear =>
              /\ lzw'.table = << >>
              /\ lzw'.table_size = 257 ]_vars

\* 'A', 255 and a clear code were read, then 'A' again: the entry built
\* before the clear is gone, the output kept its two bytes over the clear
\* and the literal after the clear added no entry.
C21_Witness ==
    /\ lzw.pc = "loop"
    /\ lzw_data = EncodeCodes(<< 65, 255, CLEAR_CODE, 65 >>)
    /\ lzw.code = 65
    /\ lzw.output = << 65, 255, 65 >>
    /\ lzw.table = << >>
    /\ lzw.table_size = 257
    /\ lzw.prev_string = << 65 >>
    /\ lzw.pos > 9

-----------------------------------------------------------------------------
\* DynamixLZW: block alignment at the clear code

\* bits of the codes read at smaller code sizes since a reset: 256 codes of
\* 9 bits, 512 of 10 and 1024 of 11
SizeChangeOffset(c) ==
    IF c = 9 THEN 0
    ELSE IF c = 10 THEN SlotOffset(257)
    ELSE IF c = 11 THEN SlotOffset(769)
    ELSE SlotOffset(1793)

\* bits from origin up to the next multiple of block at or after bits
UpToBoundary(bits, origin, block) ==
    (block - ((bits - origin) % block)) % block

\* a loop pass that reads a clear code
ClearPass == LzwReadCode /\ lzw'.code = CLEAR_CODE

\* the input ended inside the skip
SkipCutShort == BitsTaken(lzw') = 8 * Len(lzw_data)

\* C22 as stated: the pass that reads a clear code at code size c ends on a
\* multiple of c*8 bits counted from the start of the stream or the clear
\* code before, unless the input ends first.
C22_AlignedFromLastClear ==
    [][ ClearPass =>
           \/ SkipCutShort
           \/ (BitsTaken(lzw') - lzw.aligned_at) % (8 * lzw.code_size) = 0 ]_vars

\* C22: the pass that reads a clear code at code size c discards exactly the
\* bits that remain up to the next boundary of the blocks of c*8 bits, the
\* blocks being counted from the start of the stream or the clear code before
\* while c is 9 and from the last increase of the code size otherwise, so
\* the code after the clear starts on such a boundary; a clear code that is
\* the last code of its block discards nothing; a skip that meets the end of
\* the input stops there.
C22_AlignedFromLastEvent ==
    [][ ClearPass =>
           LET c == lzw.code_size
               origin == lzw.aligned_at + SizeChangeOffset(c)
               after_code == BitsTaken(lzw) + c
               skip == UpToBoundary(after_code, origin, 8 * c)
           IN  /\ BitsTaken(lzw') = Min(after_code + skip, 8 * Len(lzw_data))
               /\ lzw'.aligned_at = BitsTaken(lzw')
               /\ \/ SkipCutShort
                  \/ (BitsTaken(lzw') - origin) % (8 * c) = 0
               /\ (after_code - origin) % (8 * c) = 0 =>
                     BitsTaken(lzw') = after_code ]_vars

\* The clear code of the long stream was read with 12 bits as code 3846 and
\* the 2 codes of padding after it were discarded: the next code starts a
\* whole number of 96-bit blocks after the first 12-bit code, which is not a
\* whole number of them after the start of the stream.
C22_Witness ==
    /\ AfterClear
    /\ lzw_data = LongStream
    /\ Len(lzw.output) = LongCodes
    /\ BitsTaken(lzw) = LongHeadBits
    /\ BitsTaken(lzw) = SlotOffset(LongClearSlot) + 12 + 2 * 12
    /\ (BitsTaken(lzw) - SizeChangeOffset(12)) % 96 = 0
    /\ BitsTaken(lzw) % 96 # 0

-----------------------------------------------------------------------------
\* DynamixLZW: the emitted string and the entry added

\* the bytes a loop pass appended to the output
Emitted == SubSeq(lzw'.output, Len(lzw.output) + 1, Len(lzw'.output))

\* a loop pass that read a code and emitted its string
EmitPass == LzwReadCode /\ lzw'.code # CLEAR_CODE /\ lzw'.pc = "loop"

\* the pass read the code of the entry that is being built
SelfRefPass ==
    EmitPass /\ lzw'.code = lzw.table_size /\ lzw.prev_string # NoPrev

\* C23: a pass that reads the code equal to the table size while there is a
\* previous string emits the previous string followed by its own first
\* byte, and the entry it adds under that code is the emitted string; a pass
\* that reads any other valid code emits the string of the code and adds the
\* previous string followed by the first byte of the emitted string; no entry
\* is added without a previous string or into a full table.
C23_EmittedAndAdded ==
    /\ [][ EmitPass => /\ lzw'.output = lzw.output \o Emitted
                       /\ lzw'.prev_string = Emitted ]_vars
    /\ [][ SelfRefPass =>
              /\ ~lzw.table_full
              /\ Emitted = lzw.prev_string \o << lzw.prev_string[1] >>
              /\ lzw'.table = Append(lzw.table, Emitted)
              /\ TableGet(lzw', lzw'.code) = Emitted ]_vars
    /\ [][ (EmitPass /\ ~SelfRefPass) =>
              /\ InTable(lzw, lzw'.code)
              /\ Emitted = TableGet(lzw, lzw'.code)
              /\ IF lzw.prev_string # NoPrev /\ ~lzw.table_full
                 THEN lzw'.table
                        = Append(lzw.table, lzw.prev_string \o << Emitted[1] >>)
                 ELSE lzw'.table = lzw.table ]_vars

\* 'A', 'B' and code 257 ("AB") were read, then code 259 while the table had
\* 259 entries: "ABA" was emitted and is now entry 259.
C23_Witness ==
    /\ lzw.pc = "loop"
    /\ lzw_data = PackCodes(<< 65, 66, 257, 259 >>)
    /\ lzw.code = 259
    /\ lzw.output = << 65, 66, 65, 66, 65, 66, 65 >>
    /\ lzw.table = << << 65, 66 >>, << 66, 65 >>, << 65, 66, 65 >> >>
    /\ lzw.table_size = 260
    /\ TableGet(lzw, 259) = << 65, 66, 65 >>

-----------------------------------------------------------------------------
\* DynamixLZW._get_code

\* bit b of the buffer read as a stream, bit 0 of byte 0 first
BitOf(data, b) == (At(data, b \div 8) \div Pow2(b % 8)) % 2

\* the n bits from bit offset off on, the first as the least significant
RECURSIVE BitsFrom(_, _, _)
BitsFrom(data, off, n) ==
    IF n = 0 THEN 0 ELSE BitOf(data, off) + 2 * BitsFrom(data, off + 1, n - 1)

\* C24: a successful _get_code(n), n in 1..15, returns the n bits of the
\* buffer that start at the bit offset the calls before it reached, the
\* first as the least significant bit, and moves the offset on by n; between
\* calls the instance holds 0 to 8 pending bits, which are the bits not yet
\* taken of the byte before pos.
C24_GetCodeBits ==
    /\ [](gc.pc = "ready" =>
            /\ gc.bits_size \in 0..8
            /\ gc.pos \in 0..Len(gc.data)
            /\ gc.bits_data \in 0..(Pow2(gc.bits_size) - 1)
            /\ gc.bits_size > 0 =>
                  gc.bits_data = At(gc.data, gc.pos - 1)
                                    \div Pow2(8 - gc.bits_size))
    /\ [][ (gc.pc = "ready" /\ gc'.ok) =>
              /\ gc'.num_bits \in 1..MaxBits
              /\ BitsTaken(gc') = BitsTaken(gc) + gc'.num_bits
              /\ gc'.code = BitsFrom(gc.data, BitsTaken(gc), gc'.num_bits) ]_vars

\* After a call for 3 bits, a call for 15 bits on the bytes A5 FF 00 took
\* the upper 5 bits of the first byte, the second byte and 2 bits of the
\* third: 20 + 255*32 = 8180, with 6 bits left pending.
C24_Witness ==
    /\ gc.pc = "ready"
    /\ gc.data = << 165, 255, 0 >>
    /\ gc.ok
    /\ gc.num_bits = 15
    /\ gc.code = 8180
    /\ BitsTaken(gc) = 18
    /\ gc.bits_size = 6
    /\ gc.pos = 3

-----------------------------------------------------------------------------
\* decompress_lz77: what a decision appends

\* a decision that returned, of a literal or of a back-reference
LiteralStep == lz.pc = "bit" /\ lz'.pc # "raised" /\ DecidingBit(lz) = 0
CopyStep == lz.pc = "bit" /\ lz'.pc # "raised" /\ DecidingBit(lz) = 1

\* the source byte of a literal, and ref, copy_len, distance of a reference
LiteralByte == lz_data[lz.si + 1]
Ref == lz_data[lz.si + 1] + 256 * lz_data[lz.si + 2]
CopyLen == (Ref % 16) + 3
Distance == Ref \div 16

\* source index (from 0) of the j-th byte of the copy, j from 0
CopySrc(j) == Len(lz.output) - Distance - 1 + j

\* C25: a literal decision appends color_table[b] for a source byte b below
\* 64 and b itself for b from 64 on; a back-reference appends bytes equal to
\* the output bytes they are copied from, not the table entries of these.
C25_LiteralsMapped ==
    /\ [][ LiteralStep =>
              lz'.output
                 = Append(lz.output,
                          IF LiteralByte < 64 THEN lz_table[LiteralByte + 1]
                          ELSE LiteralByte) ]_vars
    /\ [][ CopyStep =>
              /\ SubSeq(lz'.output, 1, Len(lz.output)) = lz.output
              /\ \A j \in 0..(Len(lz'.output) - Len(lz.output) - 1) :
                    CopySrc(j) >= 0 =>
                       lz'.output[Len(lz.output) + j + 1]
                          = lz'.output[CopySrc(j) + 1] ]_vars

\* With the table that maps 48 to 32 and 32 to 48: the literal 48 was
\* appended as 32, the copy repeated 32 three times, and the literals after
\* it went through the table once each.
C25_Witness ==
    /\ lz.pc = "done"
    /\ lz_table = COLOR_TABLE_1
    /\ lz_data = << 0, 0, 0 >> \o RemapBody
    /\ lz.output = << 32, 32, 32, 32, 32, 48, 32, 48, 32, 48 >>

\* C26: a back-reference ref appends (ref & 0x0F) + 3 bytes, 3 to 18, and
\* takes two source bytes; with L the output length before the copy, the j-th
\* appended byte (j from 0) is the byte at index L - (ref >> 4) - 1 + j of
\* the output as it is when that byte is appended, whenever that index is not
\* negative.  So a copy at a distance within the output repeats the last
\* distance + 1 bytes in turn, and at distance 0 the last byte.
C26_BackReference ==
    [][ CopyStep =>
           LET L == Len(lz.output)
           IN  /\ CopyLen \in 3..18
               /\ Len(lz'.output) = L + CopyLen
               /\ lz'.si = lz.si + 2
               /\ SubSeq(lz'.output, 1, L) = lz.output
               /\ \A j \in 0..(CopyLen - 1) :
                     /\ CopySrc(j) < L + j
                     /\ CopySrc(j) >= 0 =>
                           lz'.output[L + j + 1] = lz'.output[CopySrc(j) + 1]
                     /\ Distance < L =>
                           lz'.output[L + j + 1]
                              = lz.output[L - Distance + (j % (Distance + 1))]
                     /\ (Distance = 0 /\ L > 0) =>
                           lz'.output[L + j + 1] = lz.output[L] ]_vars

\* After the literals 'A' and 'B', a copy of 5 bytes at distance 1 has
\* appended A B A B A, three of them bytes the copy itself had written, and a
\* copy of 18 bytes at distance 0 has appended the 'A' before it 18 times.
C26_Witness ==
    /\ lz.pc = "done"
    /\ lz_data = << 0, 0, 0 >> \o CopyBody
    /\ Len(lz.output) = 29
    /\ SubSeq(lz.output, 1, 7) = << 65, 66, 65, 66, 65, 66, 65 >>
    /\ SubSeq(lz.output, 8, 25) = [k \in 1..18 |-> 65]
    /\ SubSeq(lz.output, 26, 29) = << 67, 68, 69, 70 >>

\* a back-reference decision whose two source bytes are there
CopyAttempt ==
    lz.pc = "bit" /\ DecidingBit(lz) = 1 /\ lz.si + 2 <= Len(lz_data)

\* C27: a back-reference never fails for where it points: every step of the
\* copy whose source index is below 0 appends a zero byte (the index is
\* always below the output length of that moment), also with an empty output,
\* and the copy appends all its copy_len bytes.
C27_OutsideIsZero ==
    /\ [][ CopyAttempt => lz'.pc # "raised" ]_vars
    /\ [][ CopyStep =>
              /\ Len(lz'.output) = Len(lz.output) + CopyLen
              /\ \A j \in 0..(CopyLen - 1) :
                    /\ CopySrc(j) < Len(lz.output) + j
                    /\ CopySrc(j) < 0 =>
                          lz'.output[Len(lz.output) + j + 1] = 0 ]_vars

\* A copy into the empty output has appended three zero bytes, and after the
\* literal 'A' a copy of 6 bytes from index -2 has appended two zero bytes
\* and then the bytes at indices 0 to 3.
C27_Witness ==
    /\ lz.pc = "done"
    /\ lz_data = << 0, 0, 0 >> \o EarlyBody
    /\ lz.output = << 0, 0, 0, 65, 0, 0, 0, 0, 0, 65, 66, 66, 66, 66, 66 >>

-----------------------------------------------------------------------------
\* process_scr_file: a single plane

\* process_scr_file returned True with no decoded VGA: plane
SinglePlane == proc.pc = "done" /\ proc.ret = "True" /\ proc.vga_pixels.none

\* C28: with only the BIN: plane decoded nothing is combined: a buffer of
\* width*height bytes is the pixel buffer as it is, and a buffer of
\* width*height/2 bytes gives width*height pixels in 0..15, byte i giving
\* pixel 2i from its low nibble and pixel 2i+1 from its high nibble.
C28_SinglePlane ==
    SinglePlane =>
        LET bin_pixels == proc.bin_pixels.bytes
            num_pixels == scr.result.width * scr.result.height
            pixels == ProcPixels(proc, scr)
        IN  /\ proc.mode # "combine"
            /\ Len(bin_pixels) = num_pixels =>
                  (proc.mode = "direct8" /\ pixels = bin_pixels)
            /\ (Len(bin_pixels) # num_pixels
                /\ 2 * Len(bin_pixels) = num_pixels) =>
                  /\ proc.mode = "unpack4"
                  /\ Len(pixels) = num_pixels
                  /\ \A k \in 1..Len(pixels) : pixels[k] \in 0..15
                  /\ \A i \in 1..Len(bin_pixels) :
                        /\ pixels[2 * i - 1] = bin_pixels[i] % 16
                        /\ pixels[2 * i] = bin_pixels[i] \div 16

\* A 2x2 file with the plane bytes 21 43 in BIN: and no VGA: section: the
\* pixels are 1, 2, 3, 4.
C28_Witness ==
    /\ SinglePlane
    /\ ~proc.vga_called
    /\ scr.result.width = 2
    /\ scr.result.height = 2
    /\ proc.bin_pixels.bytes = << 33, 67 >>
    /\ proc.mode = "unpack4"
    /\ ProcPixels(proc, scr) = << 1, 2, 3, 4 >>

-----------------------------------------------------------------------------
\* DynamixLZW: the block-alignment counter

\* C29: while decompress runs _cache_bits is a multiple of the code size, at
\* least 0 and below code_size*8, and, unless the input ended inside a code,
\* it is the number of bits taken since the last reset or increase of the
\* code size, modulo code_size*8.  A pass that increases the code size leaves
\* the counter at 0, having taken 256 codes of 9 bits, then 512 of 10, then
\* 1024 of 11 since the last reset.
C29_CacheBits ==
    /\ [](LzwRunning =>
            /\ lzw.cache_bits % lzw.code_size = 0
            /\ lzw.cache_bits >= 0
            /\ lzw.cache_bits < 8 * lzw.code_size
            /\ lzw.stop # "eos" =>
                  lzw.cache_bits
                     = (BitsTaken(lzw) - lzw.aligned_at
                          - SizeChangeOffset(lzw.code_size))
                       % (8 * lzw.code_size))
    /\ [][ (LzwReadCode /\ lzw'.code_size > lzw.code_size) =>
              /\ lzw'.cache_bits = 0
              /\ lzw'.aligned_at = lzw.aligned_at
              /\ BitsTaken(lzw') - lzw.aligned_at
                    = SizeChangeOffset(lzw'.code_size)
              /\ SizeChangeOffset(lzw'.code_size)
                    = SizeChangeOffset(lzw.code_size)
                      + lzw.code_size * Pow2(lzw.code_size - 1) ]_vars

\* The 256th code of the long stream has been read: the table has 512
\* entries, the code size went from 9 to 10 after 2304 bits, 32 whole blocks
\* of 72, and the counter is 0.
C29_Witness ==
    /\ lzw.pc = "loop"
    /\ lzw_data = LongStream
    /\ lzw.table_size = 512
    /\ lzw.code_size = 10
    /\ lzw.cache_bits = 0
    /\ BitsTaken(lzw) = 2304
    /\ Len(lzw.output) = 256

-----------------------------------------------------------------------------
\* The codecs and the expected size

\* how far above the expected size of a call the comparison goes
MoreExpected == 3

\* expected sizes from n on to compare a call of size n with
LargerSizes(n) ==
    { m \in ExpectedSizes \cup (n..(n + MoreExpected)) : m >= n }

\* C30: what DynamixLZW.decompress and decompress_rle return for an
\* expected size n is a prefix of what they return for the same data and
\* any expected size m >= n.
C30_PrefixMonotone ==
    /\ lzw.pc = "done" =>
          \A m \in LargerSizes(lzw_expected) :
             IsPrefix(lzw_result, LZWDecompress(lzw_data, m))
    /\ rle.pc = "done" =>
          \A m \in LargerSizes(rle_expected) :
             IsPrefix(rle_result, RLEDecompress(rle_data, m))

\* A call with expected size 3 returned A B A, cut out of the output
\* A B AB, and with expected size 4 the same data give A B A B.
C30_Witness ==
    /\ lzw.pc = "done"
    /\ lzw_data = PackCodes(<< 65, 66, 257 >>)
    /\ lzw_expected = 3
    /\ lzw.output = << 65, 66, 65, 66 >>
    /\ lzw_result = << 65, 66, 65 >>
    /\ LZWDecompress(lzw_data, 4) = << 65, 66, 65, 66 >>

====
